---- MODULE Spec2Model ----
(***************************************************************************)
(* The extraction-to-graph pipeline of the sponge backend: one chat        *)
(* request (routes/chat.py create_chat_turn) drives ExtractionPipeline.run *)
(* (llm/pipeline.py) through extract, score, dedup, persist, contradiction *)
(* detection and question generation, against one session's graph, and     *)
(* the model-invocation client (llm/client.py call_llm_with_schema).       *)
(*                                                                         *)
(* Titles are modelled by their lower-cased whitespace-token word sets,    *)
(* the only view of a title the dedup and contradiction code reads.        *)
(* A similarity is the pair <<intersection, union>>; the float comparisons *)
(* of the source are done by cross-multiplication, which agrees with the   *)
(* correctly rounded division for word sets of this size.                  *)
(* Node ids are the node's position in the nodes table; 0 stands for None. *)
(* title_len is a title's length in characters, kept at the largest value  *)
(* its origin allows: 100 for a title that passed CandidateNugget, 500 for *)
(* one set through edit_node.                                              *)
(***************************************************************************)
EXTENDS Integers, Sequences, FiniteSets, TLC

\* ---------------------------------------------------------------- bounds
MaxRuns == 2          \* chat requests in one behaviour
MaxCands == 2         \* candidates one extraction returns (Spec)
MaxTotalCands == 3    \* candidates extracted over one behaviour (Spec)
MaxCoCands == 3       \* candidates one extraction returns (SpecCo)
MaxEdits == 1         \* edit_node requests in one behaviour
MaxRetries == 2       \* largest max_retries tried on the client
MaxRequests == 2      \* concurrent requests on one session (SpecTurns)
MaxChunks == 2        \* chunks of one uploaded document (SpecTurns)
MaxWords == 20        \* words of the longest title (SpecDedup)
MaxExisting == 2      \* existing nodes the candidate is compared with (SpecDedup)
MaxSessions == 2      \* sessions (SpecSessions)
MaxSessionRuns == 3   \* chat requests in one behaviour (SpecSessions)
MaxSessionCands == 4  \* candidates extracted over one behaviour (SpecSessions)
MaxContraRuns == 1    \* chat requests on the prepared session (SpecContra)
MaxRateNodes == 10    \* nodes of the session whose dedup rate is taken (SpecRate)
MaxRateEdges == 3     \* edges of one type in that session (SpecRate)
MaxGraphNodes == 3    \* nodes of the session whose graph subset is taken (SpecGraph)
MaxParts == 5         \* pieces a response of the provider is made of (SpecJson)
MaxNuggetRuns == 1    \* chat requests in one behaviour (SpecNuggets)
MaxLookupRuns == 2    \* chat requests in one behaviour (SpecLookup)
MaxScoreEntries == 2  \* entries of one scoring output (SpecLookup)
MaxNuggetRequests == 2  \* feedback and status requests in one behaviour (SpecNuggets)
MaxFeedbacks == 3     \* feedback requests in one behaviour (SpecFeedback)
MaxContextNodes == 6  \* nuggets of the session whose context is built (SpecContext)

\* ------------------------------------------------------ program constants
MIN_SCORE_THRESHOLD == 30
ANTI_GENERIC_NOVELTY_THRESHOLD == 20
SIMILARITY_THRESHOLD == 85            \* 0.85, in hundredths
LINK_EXPANDS_THRESHOLD == 50          \* 0.5
LINK_RELATED_THRESHOLD == 30          \* 0.3
CONTRADICTION_SIMILARITY_FLOOR == 30  \* 0.3
DEFAULT_DIMENSION == 50
DEFAULT_MAX_RETRIES == 1
CANDIDATE_TITLE_MAX == 100            \* CandidateNugget.title max_length
EDIT_TITLE_MAX == 500                 \* NodeEditRequest.title max_length
RATIONALE_MAX == 200                  \* DedupDecision.merge_rationale max_length
RATIONALE_PREFIX == 12                \* len("Similar to: ")
CANDIDATE_TITLE_MIN == 5              \* CandidateNugget.title min_length
DEFAULT_QUESTION_SCORES == <<70, 65, 75, 55, 70>>  \* _default_questions
UPVOTE_SCORE_BOOST == 5               \* routes/nugget.py
MAX_SCORE == 100                      \* the cap of a boosted score
CONTEXT_MIN_SCORE == 60               \* _get_session_context: Nugget.score >= 60
CONTEXT_LIMIT == 5                    \* _get_session_context: limit(5)
CAPTURED_LIMIT == 4                   \* create_chat_turn: captured_nuggets[:4]

None == 0

\* ------------------------------------------------------------ input sets
Titles == { {"a", "b"}, {"a"}, {"a", "c"}, {"c", "d"} }
Confidences == {"high", "medium", "low"}
CandidateNugget == [title : Titles, confidence : Confidences]

Dims(s, n, au, ac, st, ar) ==
    [specificity |-> s, novelty |-> n, authority |-> au, actionability |-> ac,
     story_energy |-> st, audience_resonance |-> ar]
StrongDims == Dims(65, 55, 60, 70, 50, 60)
WeakDims == Dims(10, 10, 10, 10, 10, 10)
Profiles == {StrongDims, WeakDims}

\* the profiles of SpecTotal: the one of the test, all hundreds, and two whose
\* weighted sum is a whole number (45 and 30)
TotalProfiles ==
    {Dims(80, 70, 90, 60, 50, 75), Dims(100, 100, 100, 100, 100, 100),
     Dims(41, 56, 16, 79, 62, 27), Dims(31, 27, 20, 23, 49, 33)}

\* the narrower inputs of SpecCo, which spends its states on longer candidate lists
CoCandidates == [title : {{"a", "b"}, {"c", "d"}}, confidence : {"high"}]
CoProfiles == {StrongDims}

\* the candidates of SpecSessions: a title and its negation
NegatingCandidates == [title : {{"a", "b"}, {"not", "a", "b"}}, confidence : {"high"}]

\* the score profiles of SpecScore: novelty on both sides of the anti-generic
\* threshold with an odd total, and one profile below the score threshold
NoveltyProfiles == {Dims(65, n, 60, 70, 50, 61) : n \in {0, 19, 20}} \cup {WeakDims}

\* the titles an edit_node request sets: word set and length in characters
\* (a long title can repeat its words)
EditTitles == {[title |-> {"a", "b"}, title_len |-> EDIT_TITLE_MAX]}

\* the titles of SpecDedup: the first n words of a vocabulary, n = 1..MaxWords
Vocabulary ==
    <<"w01", "w02", "w03", "w04", "w05", "w06", "w07", "w08", "w09", "w10", "w11", "w12",
      "w13", "w14", "w15", "w16", "w17", "w18", "w19", "w20", "w21", "w22", "w23", "w24">>
LongTitles == {{Vocabulary[i] : i \in 1..n} : n \in 1..MaxWords}

\* the titles of SpecContra: existing nodes of 2, 3, 7 and 10 words, and
\* candidates with and without negation signals in front of the first words
FirstWords(n) == {Vocabulary[i] : i \in 1..n}
ContraExisting ==
    {<<FirstWords(10)>>, <<FirstWords(7)>>, <<FirstWords(3), FirstWords(10)>>,
     <<FirstWords(2), FirstWords(7)>>}
ContraCandidates ==
    [title : {FirstWords(3) \cup {"not"}, FirstWords(2) \cup {"never", "but"},
              FirstWords(3), {"not", "but"}},
     confidence : {"high"}]

\* what one call of call_llm_with_schema can do: return a validated object,
\* raise ValidationRetryExhaustedError, or let the provider's LLMError through
LLMOutcomes == {"ok", "vree", "llmerror"}

\* tables.py NuggetStatus, schemas.py FeedbackValue, and the status strings a
\* status request carries (NuggetStatusRequest.status is any string)
NuggetStatus == {"new", "explored", "parked"}
FeedbackValue == {"up", "down"}
StatusRequests == NuggetStatus \cup {"archived"}

SeqsUpTo(S, n) == UNION {[1..k -> S] : k \in 0..n}

Min(a, b) == IF a < b THEN a ELSE b
Max(a, b) == IF a > b THEN a ELSE b

\* ---------------------------------------------------------------- schemas
\* the weighted sum of NuggetDimensionScores.total_score, in hundredths
WeightedSum(d) ==
    20 * d.specificity + 15 * d.novelty + 20 * d.authority + 15 * d.actionability
    + 15 * d.story_energy + 15 * d.audience_resonance

\* total_score adds the six products as IEEE-754 doubles (0.20 and 0.15 have
\* no exact double), left to right, and int() truncates the sum. Of the
\* profiles used here, these are the ones whose weighted sum is a whole number
\* and whose double sum comes out just below it:
\*   41*0.20 + 56*0.15 + 16*0.20 + 79*0.15 + 62*0.15 + 27*0.15 = 44.99999999999999
\*   31*0.20 + 27*0.15 + 20*0.20 + 23*0.15 + 49*0.15 + 33*0.15 = 29.999999999999996
\* For every other profile used here the double sum truncates to the same
\* integer as the exact sum.
FloatShortfall == {Dims(41, 56, 16, 79, 62, 27), Dims(31, 27, 20, 23, 49, 33)}

\* NuggetDimensionScores.total_score
total_score(d) ==
    IF d \in FloatShortfall THEN WeightedSum(d) \div 100 - 1 ELSE WeightedSum(d) \div 100

NextQuestionCandidate(question, target, gap, scores) ==
    [question |-> question, target_nugget_index |-> target, gap_type |-> gap,
     impact_score |-> scores[1], leverage_score |-> scores[2], momentum_score |-> scores[3],
     connectivity_score |-> scores[4], gap_criticality_score |-> scores[5]]

\* the weighted sum of NextQuestionCandidate.total_score, in hundredths
QuestionWeightedSum(q) ==
    25 * q.impact_score + 20 * q.leverage_score + 20 * q.momentum_score
    + 15 * q.connectivity_score + 20 * q.gap_criticality_score

\* the five scores of a question
QuestionScores(q) ==
    <<q.impact_score, q.leverage_score, q.momentum_score, q.connectivity_score,
      q.gap_criticality_score>>

\* total_score adds the five products as IEEE-754 doubles and int() truncates
\* the sum. Of the score tuples used here, these have a whole weighted sum and
\* a double sum just below it:
\*   77*0.25 + 69*0.20 + 72*0.20 + 57*0.15 + 35*0.20 = 62.99999999999999
\*   62*0.25 + 62*0.20 + 62*0.20 + 62*0.15 + 62*0.20 = 61.99999999999999
QuestionFloatShortfall == {<<77, 69, 72, 57, 35>>, <<62, 62, 62, 62, 62>>}

\* NextQuestionCandidate.total_score
question_total_score(q) ==
    IF QuestionScores(q) \in QuestionFloatShortfall
    THEN QuestionWeightedSum(q) \div 100 - 1 ELSE QuestionWeightedSum(q) \div 100

ScoredNugget(i, d, mf) == [nugget_index |-> i, dimension_scores |-> d, missing_fields |-> mf]

DedupDecision(i, outcome, existing, rationale, sim) ==
    [nugget_index |-> i, outcome |-> outcome, existing_node_id |-> existing,
     merge_rationale |-> rationale, similarity_score |-> sim]

\* tables.ConfidenceLevel(value): the enum member with that value, else ValueError
ConfidenceLevelValues == {"low", "med", "high"}
ConfidenceLevel(v) == IF v \in ConfidenceLevelValues THEN v ELSE "ValueError"

EmptyDb == [nodes |-> <<>>, nuggets |-> <<>>, provenance |-> <<>>, edges |-> <<>>,
            turns |-> <<>>]

\* TurnMetrics: its counts, the dedup rate as the pair <<numerator, denominator>>,
\* and the failure flag
TurnMetrics ==
    [extracted_count |-> 0, scored_count |-> 0, created_count |-> 0, merged_count |-> 0,
     linked_count |-> 0, demoted_generic_count |-> 0, dedup_trigger_count |-> 0,
     dedup_rate |-> <<0, 1>>, contradiction_count |-> 0, selected_question |-> <<>>,
     extraction_failed |-> FALSE]

PipelineResult ==
    [extracted_nuggets |-> <<>>, scored_nuggets |-> <<>>, dedup_decisions |-> <<>>,
     created_nodes |-> <<>>, created_edges |-> <<>>, created_nuggets |-> <<>>,
     questions |-> <<>>, why_primary |-> "", extraction_failed |-> FALSE,
     failure_reason |-> "", metrics |-> TurnMetrics]

EXTRACTION_FAILURE == "I couldn't identify any distinct ideas from what you shared."
QUALITY_FAILURE == "The ideas I captured seem too vague or general to be useful."
DEFAULT_WHY == "Let's explore this further with a concrete example."
FALLBACK_WHY == "A concrete example would make this insight more compelling."

VARIABLES
    db,              \* the request's database session: committed rows plus its own flushed ones
    committed,       \* what is committed
    pc,              \* where the current request is
    result,          \* the run's PipelineResult
    existing_nodes,  \* the run's snapshot of the session's nodes (ExistingNodeContext list)
    chat_turn_id,    \* id of the user turn of the current request
    raised,          \* the exception that escaped the run, "" if none
    log,             \* logger.error messages of the current run
    nruns,           \* requests started
    ncands,          \* candidates extracted so far, over all requests
    nedits,          \* edit_node requests served
    extract_output,  \* run's extract_output.nuggets, until the scoring stage replaces it
    emitted,         \* the pipeline_turn_metrics records the current run has logged
    session_rate,    \* the session_dedup_rate record the current run has logged
    graph,           \* what the last call of get_graph_subset returned
    validated,       \* what the last validation of a CandidateNugget title gave
    extracted,       \* what the last call of _extract_json was given and what it gave
    session_context, \* what the last call of _get_session_context returned
    nugget_log,      \* the feedback and status requests served, with the nugget before and after
    cl,              \* one call of call_llm_with_schema (SpecClient)
    tx               \* concurrent requests numbering the turns of one session (SpecTurns)

pvars == <<db, committed, pc, result, existing_nodes, chat_turn_id, raised, log, nruns, ncands,
           nedits, extract_output, emitted, session_rate, graph, validated, extracted,
           session_context, nugget_log>>
vars == <<pvars, cl, tx>>

\* ------------------------------------------------------------- pipeline
\* the query of _get_existing_nodes without its session filter
_get_existing_nodes_all(d, sid) ==
    [i \in 1..Len(d.nodes) |->
        [node_id |-> d.nodes[i].id, title |-> d.nodes[i].title,
         title_len |-> d.nodes[i].title_len]]

\* ExtractionPipeline._get_existing_nodes: the nodes of the pipeline's session
_get_existing_nodes(d, sid) ==
    LET nodes == SelectSeq(d.nodes, LAMBDA n : n.session_id = sid)
    IN [i \in 1..Len(nodes) |->
           [node_id |-> nodes[i].id, title |-> nodes[i].title,
            title_len |-> nodes[i].title_len]]

FilterLowConfidenceNever(nuggets) == nuggets

\* run, lines 169-172: drop low-confidence candidates if there are others
FilterLowConfidence(nuggets) ==
    LET high_confidence == SelectSeq(nuggets, LAMBDA n : n.confidence # "low")
    IN IF high_confidence # <<>> THEN high_confidence ELSE nuggets

_default_scores_zero(nuggets) ==
    [i \in 1..Len(nuggets) |-> ScoredNugget(i - 1, Dims(0, 0, 0, 0, 0, 0), <<"example">>)]

\* ExtractionPipeline._default_scores
_default_scores(nuggets) ==
    [i \in 1..Len(nuggets) |->
        ScoredNugget(i - 1,
                     Dims(DEFAULT_DIMENSION, DEFAULT_DIMENSION, DEFAULT_DIMENSION,
                          DEFAULT_DIMENSION, DEFAULT_DIMENSION, DEFAULT_DIMENSION),
                     <<"example">>)]

\* run, lines 199-204
valid_nuggets(scored) ==
    SelectSeq(scored, LAMBDA s : total_score(s.dimension_scores) >= MIN_SCORE_THRESHOLD)

\* ------------------------------------------------------------------ dedup
\* intersection / union of two word sets, as the pair <<intersection, union>>
Jaccard(a, b) == <<Cardinality(a \cap b), Cardinality(a \cup b)>>
ZeroSim == <<0, 1>>
SimGT(s, t) == s[1] * t[2] > t[1] * s[2]
\* s >= pct / 100
SimGE(s, pct) == s[1] * 100 >= pct * s[2]

\* _deduplicate, lines 588-600: the first node of strictly greatest similarity
RECURSIVE BestMatch(_, _, _)
BestMatch(nugget_words, nodes, best) ==
    IF nodes = <<>> THEN best
    ELSE LET node == Head(nodes)
             similarity == Jaccard(nugget_words, node.title)
         IN IF nugget_words = {} \/ node.title = {}
            THEN BestMatch(nugget_words, Tail(nodes), best)
            ELSE IF SimGT(similarity, best.best_similarity)
                 THEN BestMatch(nugget_words, Tail(nodes),
                                [best_similarity |-> similarity, best_match |-> node])
                 ELSE BestMatch(nugget_words, Tail(nodes), best)

DedupOutcomeStrict(best_similarity) ==
    IF SimGT(best_similarity, <<SIMILARITY_THRESHOLD, 100>>) THEN "merge"
    ELSE IF SimGT(best_similarity, <<LINK_EXPANDS_THRESHOLD, 100>>) THEN "link_expands"
    ELSE IF SimGT(best_similarity, <<LINK_RELATED_THRESHOLD, 100>>) THEN "link_related"
    ELSE "create"

\* _deduplicate, lines 602-610
DedupOutcome(best_similarity) ==
    IF SimGE(best_similarity, SIMILARITY_THRESHOLD) THEN "merge"
    ELSE IF SimGE(best_similarity, LINK_EXPANDS_THRESHOLD) THEN "link_expands"
    ELSE IF SimGE(best_similarity, LINK_RELATED_THRESHOLD) THEN "link_related"
    ELSE "create"

NoMatch == [node_id |-> None, title |-> {}, title_len |-> 0]
Best(nugget, existing) ==
    BestMatch(nugget.title, existing, [best_similarity |-> ZeroSim, best_match |-> NoMatch])

\* merge_rationale None, and f"Similar to: {title}"
NoRationale == <<>>
SimilarTo(title) == <<"Similar to: ", title>>

_deduplicate_keeps_match(nuggets, existing) ==
    IF existing = <<>>
    THEN [i \in 1..Len(nuggets) |-> DedupDecision(i - 1, "create", None, NoRationale, ZeroSim)]
    ELSE [i \in 1..Len(nuggets) |->
            LET best == Best(nuggets[i], existing)
                outcome == DedupOutcome(best.best_similarity)
            IN DedupDecision(i - 1, outcome,
                             IF best.best_match # NoMatch
                             THEN best.best_match.node_id ELSE None,
                             IF best.best_match # NoMatch /\ outcome # "create"
                             THEN SimilarTo(best.best_match.title) ELSE NoRationale,
                             best.best_similarity)]

\* ExtractionPipeline._deduplicate, when every DedupDecision validates
_deduplicate(nuggets, existing) ==
    IF existing = <<>>
    THEN [i \in 1..Len(nuggets) |-> DedupDecision(i - 1, "create", None, NoRationale, ZeroSim)]
    ELSE [i \in 1..Len(nuggets) |->
            LET best == Best(nuggets[i], existing)
                outcome == DedupOutcome(best.best_similarity)
            IN DedupDecision(i - 1, outcome,
                             IF best.best_match # NoMatch /\ outcome # "create"
                             THEN best.best_match.node_id ELSE None,
                             IF best.best_match # NoMatch /\ outcome # "create"
                             THEN SimilarTo(best.best_match.title) ELSE NoRationale,
                             best.best_similarity)]

\* _deduplicate, lines 612-628: DedupDecision(...) validates merge_rationale =
\* "Similar to: <title>" against max_length 200 and raises pydantic's
\* ValidationError on a longer one
DedupRaises(nuggets, existing) ==
    /\ existing # <<>>
    /\ \E i \in 1..Len(nuggets) :
          LET best == Best(nuggets[i], existing)
          IN /\ best.best_match # NoMatch
             /\ DedupOutcome(best.best_similarity) # "create"
             /\ RATIONALE_PREFIX + best.best_match.title_len > RATIONALE_MAX

\* ---------------------------------------------------------------- persist
\* NoScore stands for None
NoScore == [nugget_index |-> -1]

_compute_persisted_score_le(score_data) ==
    IF score_data = NoScore THEN DEFAULT_DIMENSION
    ELSE LET raw == total_score(score_data.dimension_scores)
         IN IF score_data.dimension_scores.novelty <= ANTI_GENERIC_NOVELTY_THRESHOLD
            THEN IF raw \div 2 > 0 THEN raw \div 2 ELSE 0
            ELSE raw

\* ExtractionPipeline._compute_persisted_score
_compute_persisted_score(score_data) ==
    IF score_data = NoScore THEN DEFAULT_DIMENSION
    ELSE LET raw == total_score(score_data.dimension_scores)
         IN IF score_data.dimension_scores.novelty < ANTI_GENERIC_NOVELTY_THRESHOLD
            THEN IF raw \div 2 > 0 THEN raw \div 2 ELSE 0
            ELSE raw

\* the lookup if it went by position in the scoring output
FindScoreByPosition(scores, i) ==
    IF i + 1 \in DOMAIN scores THEN scores[i + 1] ELSE NoScore

\* _persist_graph, lines 660-663: the first score entry with nugget_index = i
FindScore(scores, i) ==
    LET hits == SelectSeq(scores, LAMBDA s : s.nugget_index = i)
    IN IF hits = <<>> THEN NoScore ELSE Head(hits)

Edge(sid, src, dst, type) ==
    [session_id |-> sid, source_id |-> src, target_id |-> dst, edge_type |-> type]

AddNodeNuggetProvenanceStaleId(st, nugget, score_data, turn) ==
    LET id == Len(st.nodes) + 1
        node == [id |-> id, session_id |-> st.session_id, title |-> nugget.title,
                 title_len |-> CANDIDATE_TITLE_MAX]
        nugget_record ==
            [node_id |-> Len(st.nodes), title |-> nugget.title,
             score |-> _compute_persisted_score(score_data),
             dimension_scores |->
                IF score_data = NoScore THEN <<>> ELSE <<score_data.dimension_scores>>,
             missing_fields |->
                IF score_data = NoScore THEN <<>> ELSE score_data.missing_fields,
             status |-> "new", user_feedback |-> "none"]
        conf == ConfidenceLevel(nugget.confidence)
        st1 == [st EXCEPT !.nodes = Append(@, node),
                          !.node_id_map = Append(@, id),
                          !.created_nodes = Append(@, node),
                          !.nuggets = Append(@, nugget_record),
                          !.created_nuggets = Append(@, nugget_record)]
    IN IF conf = "ValueError"
       THEN [st1 EXCEPT !.raised = "ValueError"]
       ELSE [st1 EXCEPT !.provenance =
                Append(@, [node_id |-> id, source_type |-> "chat", source_id |-> turn,
                           confidence |-> conf])]

\* _persist_graph, lines 667-703 and 722-758: Node, flush, Nugget, Provenance.
\* ConfidenceLevel(...) is evaluated after the node and the nugget were added;
\* when it raises, the provenance row is not added and st.raised is set.
AddNodeNuggetProvenance(st, nugget, score_data, turn) ==
    LET id == Len(st.nodes) + 1
        node == [id |-> id, session_id |-> st.session_id, title |-> nugget.title,
                 title_len |-> CANDIDATE_TITLE_MAX]
        nugget_record ==
            [node_id |-> id, title |-> nugget.title,
             score |-> _compute_persisted_score(score_data),
             dimension_scores |->
                IF score_data = NoScore THEN <<>> ELSE <<score_data.dimension_scores>>,
             missing_fields |->
                IF score_data = NoScore THEN <<>> ELSE score_data.missing_fields,
             status |-> "new", user_feedback |-> "none"]
        conf == ConfidenceLevel(nugget.confidence)
        st1 == [st EXCEPT !.nodes = Append(@, node),
                          !.node_id_map = Append(@, id),
                          !.created_nodes = Append(@, node),
                          !.nuggets = Append(@, nugget_record),
                          !.created_nuggets = Append(@, nugget_record)]
    IN IF conf = "ValueError"
       THEN [st1 EXCEPT !.raised = "ValueError"]
       ELSE [st1 EXCEPT !.provenance =
                Append(@, [node_id |-> id, source_type |-> "chat", source_id |-> turn,
                           confidence |-> conf])]

PersistOneAlwaysRelated(st, i, nugget, decision, scores, turn) ==
    LET score_data == FindScore(scores, i)
    IN CASE decision.outcome = "create" ->
              AddNodeNuggetProvenance(st, nugget, score_data, turn)
         [] decision.outcome = "merge" ->
              IF decision.existing_node_id = None THEN st
              ELSE LET conf == ConfidenceLevel(nugget.confidence)
                       st1 == [st EXCEPT !.node_id_map = Append(@, decision.existing_node_id)]
                   IN IF conf = "ValueError"
                      THEN [st1 EXCEPT !.raised = "ValueError"]
                      ELSE [st1 EXCEPT !.provenance =
                               Append(@, [node_id |-> decision.existing_node_id,
                                          source_type |-> "chat", source_id |-> turn,
                                          confidence |-> conf])]
         [] OTHER ->
              LET st1 == AddNodeNuggetProvenance(st, nugget, score_data, turn)
                  edge == Edge(st.session_id, Len(st.nodes) + 1, decision.existing_node_id,
                               "related_to")
              IN IF st1.raised # "" \/ decision.existing_node_id = None THEN st1
                 ELSE [st1 EXCEPT !.edges = Append(@, edge),
                                  !.created_edges = Append(@, edge)]

PersistOneMergeSilent(st, i, nugget, decision, scores, turn) ==
    LET score_data == FindScore(scores, i)
    IN CASE decision.outcome = "create" ->
              AddNodeNuggetProvenance(st, nugget, score_data, turn)
         [] decision.outcome = "merge" ->
              IF decision.existing_node_id = None THEN st
              ELSE LET conf == ConfidenceLevel(nugget.confidence)
                       st1 == [st EXCEPT !.node_id_map = Append(@, decision.existing_node_id)]
                   IN IF conf = "ValueError"
                      THEN [st1 EXCEPT !.raised = "ValueError"]
                      ELSE st1
         [] OTHER ->
              LET st1 == AddNodeNuggetProvenance(st, nugget, score_data, turn)
                  edge == Edge(st.session_id, Len(st.nodes) + 1, decision.existing_node_id,
                               IF decision.outcome = "link_expands"
                               THEN "expands_on" ELSE "related_to")
              IN IF st1.raised # "" \/ decision.existing_node_id = None THEN st1
                 ELSE [st1 EXCEPT !.edges = Append(@, edge),
                                  !.created_edges = Append(@, edge)]

\* the persist step if it applied the score threshold to each candidate
PersistOneAboveThreshold(st, i, nugget, decision, scores, turn) ==
    LET score_data == FindScore(scores, i)
    IN CASE score_data # NoScore
              /\ total_score(score_data.dimension_scores) < MIN_SCORE_THRESHOLD -> st
         [] decision.outcome = "create" ->
              AddNodeNuggetProvenance(st, nugget, score_data, turn)
         [] decision.outcome = "merge" ->
              IF decision.existing_node_id = None THEN st
              ELSE LET conf == ConfidenceLevel(nugget.confidence)
                       st1 == [st EXCEPT !.node_id_map = Append(@, decision.existing_node_id)]
                   IN IF conf = "ValueError"
                      THEN [st1 EXCEPT !.raised = "ValueError"]
                      ELSE [st1 EXCEPT !.provenance =
                               Append(@, [node_id |-> decision.existing_node_id,
                                          source_type |-> "chat", source_id |-> turn,
                                          confidence |-> conf])]
         [] OTHER ->
              LET st1 == AddNodeNuggetProvenance(st, nugget, score_data, turn)
                  edge == Edge(st.session_id, Len(st.nodes) + 1, decision.existing_node_id,
                               IF decision.outcome = "link_expands"
                               THEN "expands_on" ELSE "related_to")
              IN IF st1.raised # "" \/ decision.existing_node_id = None THEN st1
                 ELSE [st1 EXCEPT !.edges = Append(@, edge),
                                  !.created_edges = Append(@, edge)]

\* _persist_graph, the body of the loop at line 658 for one (nugget, decision)
PersistOne(st, i, nugget, decision, scores, turn) ==
    LET score_data == FindScore(scores, i)
    IN CASE decision.outcome = "create" ->
              AddNodeNuggetProvenance(st, nugget, score_data, turn)
         [] decision.outcome = "merge" ->
              IF decision.existing_node_id = None THEN st
              ELSE LET conf == ConfidenceLevel(nugget.confidence)
                       st1 == [st EXCEPT !.node_id_map = Append(@, decision.existing_node_id)]
                   IN IF conf = "ValueError"
                      THEN [st1 EXCEPT !.raised = "ValueError"]
                      ELSE [st1 EXCEPT !.provenance =
                               Append(@, [node_id |-> decision.existing_node_id,
                                          source_type |-> "chat", source_id |-> turn,
                                          confidence |-> conf])]
         [] OTHER ->
              LET st1 == AddNodeNuggetProvenance(st, nugget, score_data, turn)
                  edge == Edge(st.session_id, Len(st.nodes) + 1, decision.existing_node_id,
                               IF decision.outcome = "link_expands"
                               THEN "expands_on" ELSE "related_to")
              IN IF st1.raised # "" \/ decision.existing_node_id = None THEN st1
                 ELSE [st1 EXCEPT !.edges = Append(@, edge),
                                  !.created_edges = Append(@, edge)]

\* the loop at line 658 over zip(nuggets, dedup_decisions), from position i (0-based)
RECURSIVE PersistLoop(_, _, _, _, _, _)
PersistLoop(st, i, nuggets, decisions, scores, turn) ==
    IF st.raised # "" \/ i >= Len(nuggets) \/ i >= Len(decisions) THEN st
    ELSE PersistLoop(PersistOne(st, i, nuggets[i + 1], decisions[i + 1], scores, turn),
                     i + 1, nuggets, decisions, scores, turn)

CoExtractedEdgesSkipNext(sid, created_node_ids) ==
    LET n == Len(created_node_ids)
        RECURSIVE Pairs(_, _)
        Pairs(i, j) ==
            IF i > n THEN <<>>
            ELSE IF j > n THEN Pairs(i + 1, i + 3)
            ELSE (IF created_node_ids[i] # created_node_ids[j]
                  THEN <<Edge(sid, created_node_ids[i], created_node_ids[j], "related_to")>>
                  ELSE <<>>) \o Pairs(i, j + 1)
    IN Pairs(1, 3)

\* _persist_graph, lines 776-788: related_to edges over list(node_id_map.values())
CoExtractedEdges(sid, created_node_ids) ==
    LET n == Len(created_node_ids)
        \* the pairs (i, j), i < j, in the loop's order
        RECURSIVE Pairs(_, _)
        Pairs(i, j) ==
            IF i > n THEN <<>>
            ELSE IF j > n THEN Pairs(i + 1, i + 2)
            ELSE (IF created_node_ids[i] # created_node_ids[j]
                  THEN <<Edge(sid, created_node_ids[i], created_node_ids[j], "related_to")>>
                  ELSE <<>>) \o Pairs(i, j + 1)
    IN Pairs(1, 2)

\* ExtractionPipeline._persist_graph
_persist_graph(d, res, turn) ==
    LET st0 == [nodes |-> d.nodes, nuggets |-> d.nuggets, provenance |-> d.provenance,
                edges |-> d.edges, session_id |-> d.turns[turn].session_id,
                node_id_map |-> <<>>,
                created_nodes |-> res.created_nodes, created_edges |-> res.created_edges,
                created_nuggets |-> res.created_nuggets, raised |-> ""]
        st1 == PersistLoop(st0, 0, res.extracted_nuggets, res.dedup_decisions,
                           res.scored_nuggets, turn)
        co == CoExtractedEdges(st1.session_id, st1.node_id_map)
    IN IF st1.raised # "" THEN st1
       ELSE [st1 EXCEPT !.edges = @ \o co, !.created_edges = @ \o co]

\* ---------------------------------------------------------- contradictions
negation_signals ==
    {"not", "never", "don't", "dont", "shouldn't", "shouldnt", "avoid", "stop", "wrong",
     "myth", "overrated", "instead", "contrary", "opposite", "actually", "however", "but"}

ContradictsWholeTitle(node, e) ==
    /\ node.title # {} /\ e.title # {}
    /\ SimGE(Jaccard(node.title, e.title), CONTRADICTION_SIMILARITY_FLOOR)

\* _detect_contradictions, lines 412-422: the test of one new node, known to
\* hold a negation signal, against one existing node
Contradicts(node, e) ==
    LET content_words == node.title \ negation_signals
    IN /\ content_words # {} /\ e.title # {}
       /\ SimGE(Jaccard(content_words, e.title), CONTRADICTION_SIMILARITY_FLOOR)

\* ExtractionPipeline._detect_contradictions: the contradicts edges, in loop order
RECURSIVE ContradictionsOf(_, _, _)
ContradictionsOf(sid, node, existing) ==
    IF existing = <<>> THEN <<>>
    ELSE (IF Contradicts(node, Head(existing))
          THEN <<Edge(sid, node.id, Head(existing).node_id, "contradicts")>> ELSE <<>>)
         \o ContradictionsOf(sid, node, Tail(existing))

RECURSIVE _detect_contradictions(_, _, _)
_detect_contradictions(sid, new_nodes, existing) ==
    IF new_nodes = <<>> \/ existing = <<>> THEN <<>>
    ELSE (IF Head(new_nodes).title \cap negation_signals # {}
          THEN ContradictionsOf(sid, Head(new_nodes), existing) ELSE <<>>)
         \o _detect_contradictions(sid, Tail(new_nodes), existing)

_get_session_dedup_rate_all_edges(d, sid) ==
    LET node_count == Cardinality({i \in DOMAIN d.nodes : d.nodes[i].session_id = sid})
        dedup_edge_count ==
            Cardinality({k \in DOMAIN d.edges : d.edges[k].session_id = sid})
    IN IF node_count = 0 THEN <<0, 1>> ELSE <<dedup_edge_count, node_count>>

\* ExtractionPipeline._get_session_dedup_rate: the quotient as the pair
\* <<dividend, divisor>>, 0.0 as <<0, 1>>
_get_session_dedup_rate(d, sid) ==
    LET node_count == Cardinality({i \in DOMAIN d.nodes : d.nodes[i].session_id = sid})
        dedup_edge_count ==
            Cardinality({k \in DOMAIN d.edges :
                /\ d.edges[k].session_id = sid
                /\ d.edges[k].edge_type \in {"expands_on", "contradicts"}})
    IN IF node_count = 0 THEN <<0, 1>> ELSE <<dedup_edge_count, node_count>>

\* no session_dedup_rate record logged
NoRate == [session_id |-> None, session_dedup_rate |-> <<0, 1>>]

\* run, lines 305-313: the session_dedup_rate record
SessionRateRecord(d, sid) ==
    [session_id |-> sid, session_dedup_rate |-> _get_session_dedup_rate(d, sid)]

\* ------------------------------------------------ CandidateNugget.title
\* a title is the sequence of its characters
LowerLetters ==
    <<"a", "b", "c", "d", "e", "f", "g", "h", "i", "j", "k", "l", "m", "n", "o", "p", "q", "r", "s", "t", "u", "v", "w", "x", "y", "z">>
UpperLetters ==
    <<"A", "B", "C", "D", "E", "F", "G", "H", "I", "J", "K", "L", "M", "N", "O", "P", "Q", "R", "S", "T", "U", "V", "W", "X", "Y", "Z">>

\* one character of str.lower() and of str.upper(), on ASCII
LowerChar(c) ==
    IF \E i \in DOMAIN UpperLetters : UpperLetters[i] = c
    THEN LowerLetters[CHOOSE i \in DOMAIN UpperLetters : UpperLetters[i] = c] ELSE c
UpperChar(c) ==
    IF \E i \in DOMAIN LowerLetters : LowerLetters[i] = c
    THEN UpperLetters[CHOOSE i \in DOMAIN LowerLetters : LowerLetters[i] = c] ELSE c

\* v.lower()
Lower(v) == [i \in DOMAIN v |-> LowerChar(v[i])]

\* phrase in text
Contains(phrase, text) ==
    \E i \in 1..(Len(text) - Len(phrase) + 1) :
        SubSeq(text, i, i + Len(phrase) - 1) = phrase

\* title_not_generic, lines 48-54
generic_phrases ==
    <<<<"g", "e", "n", "e", "r", "a", "l", " ", "a", "d", "v", "i", "c", "e">>,
      <<"k", "e", "y", " ", "i", "n", "s", "i", "g", "h", "t">>,
      <<"i", "m", "p", "o", "r", "t", "a", "n", "t", " ", "p", "o", "i", "n", "t">>,
      <<"m", "a", "i", "n", " ", "i", "d", "e", "a">>,
      <<"l", "e", "s", "s", "o", "n", " ", "l", "e", "a", "r", "n", "e", "d">>>>

\* no validation made yet, and the outcomes of one
NoCandidate == [title |-> <<>>, error |-> "none"]

title_not_generic_cased(v) ==
    IF \E k \in DOMAIN generic_phrases : Contains(generic_phrases[k], v)
    THEN "Title too generic" ELSE ""

\* CandidateNugget.title_not_generic: the ValueError's message, "" when v is returned
title_not_generic(v) ==
    IF \E k \in DOMAIN generic_phrases : Contains(generic_phrases[k], Lower(v))
    THEN "Title too generic" ELSE ""

\* validation of CandidateNugget.title: the length constraints of the field,
\* then the field validator
ValidateTitle(v) ==
    [title |-> v,
     error |-> IF Len(v) < CANDIDATE_TITLE_MIN THEN "string_too_short"
               ELSE IF Len(v) > CANDIDATE_TITLE_MAX THEN "string_too_long"
               ELSE title_not_generic(v)]

\* the titles of SpecTitle: a beginning, a middle and an end; the middles are
\* the banned phrases in lower case, in upper case and capitalised, and
\* phrases close to them
Upper(v) == [i \in DOMAIN v |-> UpperChar(v[i])]
Capitalised(v) == [v EXCEPT ![1] = UpperChar(@)]
NearPhrases ==
    {<<"k", "e", "y", " ", " ", "i", "n", "s", "i", "g", "h", "t">>,
     <<"l", "e", "s", "s", "o", "n", "s", " ", "l", "e", "a", "r", "n", "e", "d">>,
     <<"m", "a", "i", "n", "-", "i", "d", "e", "a">>,
     <<"g", "e", "n", "e", "r", "a", "l", " ", "a", "d", "v", "i", "s", "e">>,
     <<"i", "d", "e", "a">>}
TitleMiddles ==
    {generic_phrases[k] : k \in DOMAIN generic_phrases}
    \cup {Upper(generic_phrases[k]) : k \in DOMAIN generic_phrases}
    \cup {Capitalised(generic_phrases[k]) : k \in DOMAIN generic_phrases}
    \cup NearPhrases
TitleBeginnings == {<<>>, <<"M", "y", " ">>, <<"m", "o", "n">>}
TitleEnds == {<<>>, <<"s">>, <<" ", "a", "b", "o", "u", "t", " ", "l", "e", "a", "d", "e", "r", "s", "h", "i", "p">>}
TitleTexts == {b \o m \o e : b \in TitleBeginnings, m \in TitleMiddles, e \in TitleEnds}

\* ------------------------------------------------------- _extract_json
\* a response is the sequence of its characters; positions are counted from 0
\* as in the source, and -1 is what str.find gives when there is no match
NotFound == -1

\* response[a:b] for 0 <= a <= b
Slice(s, a, b) == SubSeq(s, a + 1, b)

\* response.find(sub, start)
Find(s, sub, start) ==
    LET hits == {i \in start..(Len(s) - Len(sub)) : Slice(s, i, i + Len(sub)) = sub}
    IN IF hits = {} THEN NotFound ELSE CHOOSE i \in hits : \A j \in hits : i <= j

\* response.rfind(sub)
RFind(s, sub) ==
    LET hits == {i \in 0..(Len(s) - Len(sub)) : Slice(s, i, i + Len(sub)) = sub}
    IN IF hits = {} THEN NotFound ELSE CHOOSE i \in hits : \A j \in hits : i >= j

\* the whitespace of str.strip and of the JSON grammar that responses hold
Whitespace == {" ", "\n"}

\* text.strip()
Strip(s) ==
    LET inked == {i \in DOMAIN s : s[i] \notin Whitespace}
    IN IF inked = {} THEN <<>>
       ELSE SubSeq(s, CHOOSE i \in inked : \A j \in inked : i <= j,
                      CHOOSE i \in inked : \A j \in inked : i >= j)

\* json.loads on the characters responses hold: whitespace, numbers of the
\* digit 1, strings without escapes and objects of at most one member.  A
\* parse gives the value as its text without whitespace, or fails.
JsonDigits == {"1"}
ParseFailed == [ok |-> FALSE, next |-> 0, text |-> <<>>]

\* position (from 1) of the first character at or after i that is no whitespace
RECURSIVE SkipWhitespace(_, _)
SkipWhitespace(s, i) ==
    IF i <= Len(s) /\ s[i] \in Whitespace THEN SkipWhitespace(s, i + 1) ELSE i

RECURSIVE EndOfDigits(_, _)
EndOfDigits(s, i) ==
    IF i <= Len(s) /\ s[i] \in JsonDigits THEN EndOfDigits(s, i + 1) ELSE i

ParseNumber(s, i) ==
    LET j == EndOfDigits(s, i)
    IN IF j = i THEN ParseFailed
       ELSE [ok |-> TRUE, next |-> j, text |-> SubSeq(s, i, j - 1)]

\* a string: a quote, characters that are no quote and no control character,
\* a quote
ParseString(s, i) ==
    IF i > Len(s) \/ s[i] # "\"" THEN ParseFailed
    ELSE LET closing == {j \in (i + 1)..Len(s) : s[j] = "\""}
         IN IF closing = {} THEN ParseFailed
            ELSE LET j == CHOOSE j \in closing : \A k \in closing : j <= k
                 IN IF \E k \in (i + 1)..(j - 1) : s[k] = "\n" THEN ParseFailed
                    ELSE [ok |-> TRUE, next |-> j + 1, text |-> SubSeq(s, i, j)]

RECURSIVE ParseValue(_, _)
ParseValue(s, i) ==
    LET k == SkipWhitespace(s, i)
    IN IF k > Len(s) THEN ParseFailed
       ELSE IF s[k] \in JsonDigits THEN ParseNumber(s, k)
       ELSE IF s[k] = "\"" THEN ParseString(s, k)
       ELSE IF s[k] # "{" THEN ParseFailed
       ELSE LET m == SkipWhitespace(s, k + 1)
            IN IF m <= Len(s) /\ s[m] = "}"
               THEN [ok |-> TRUE, next |-> m + 1, text |-> <<"{", "}">>]
               ELSE LET key == ParseString(s, m)
                        colon == SkipWhitespace(s, key.next)
                    IN IF ~key.ok \/ colon > Len(s) \/ s[colon] # ":" THEN ParseFailed
                       ELSE LET member == ParseValue(s, colon + 1)
                                close == SkipWhitespace(s, member.next)
                            IN IF ~member.ok \/ close > Len(s) \/ s[close] # "}"
                               THEN ParseFailed
                               ELSE [ok |-> TRUE, next |-> close + 1,
                                     text |-> <<"{">> \o key.text \o <<":">>
                                              \o member.text \o <<"}">>]

\* json.loads(text): the value, or JSONDecodeError
json_loads(s) ==
    LET v == ParseValue(s, 1)
    IN IF v.ok /\ SkipWhitespace(s, v.next) = Len(s) + 1
       THEN [raised |-> "", value |-> v.text]
       ELSE [raised |-> "JSONDecodeError", value |-> <<>>]

\* the backtick character is written Backtick
Backtick == "backtick"
Fence == <<Backtick, Backtick, Backtick>>
JsonFence == Fence \o <<"j", "s", "o", "n">>

\* lines 189-197: the text the markdown json block strategy parses, None (the
\* empty response slice cannot be told from it: both go on) when it parses none
JsonBlock(response) ==
    IF Find(response, JsonFence, 0) = NotFound THEN <<>>
    ELSE LET start == Find(response, JsonFence, 0) + 7
             end == Find(response, Fence, start)
         IN IF end > start THEN Strip(Slice(response, start, end)) ELSE <<>>

\* lines 199-211: the text the generic block strategy parses
GenericBlock(response) ==
    IF Find(response, Fence, 0) = NotFound THEN <<>>
    ELSE LET start0 == Find(response, Fence, 0) + 3
             newline == Find(response, <<"\n">>, start0)
             start == IF newline > start0 THEN newline + 1 ELSE start0
             end == Find(response, Fence, start)
         IN IF end > start THEN Strip(Slice(response, start, end)) ELSE <<>>

\* lines 213-220: the text the object strategy parses
BraceSpan(response) ==
    LET start == Find(response, <<"{">>, 0)
        end == RFind(response, <<"}">>) + 1
    IN IF start >= 0 /\ end > start THEN Slice(response, start, end) ELSE <<>>

ValueError == [raised |-> "ValueError", value |-> <<>>]

\* the same with the object strategy tried before the blocks
_extract_json_brace_first(response) ==
    IF json_loads(response).raised = "" THEN json_loads(response)
    ELSE IF json_loads(BraceSpan(response)).raised = ""
         THEN json_loads(BraceSpan(response))
    ELSE IF json_loads(JsonBlock(response)).raised = ""
         THEN json_loads(JsonBlock(response))
    ELSE IF json_loads(GenericBlock(response)).raised = ""
         THEN json_loads(GenericBlock(response))
    ELSE ValueError

\* _extract_json, lines 181-222
_extract_json(response) ==
    IF json_loads(response).raised = "" THEN json_loads(response)
    ELSE IF json_loads(JsonBlock(response)).raised = ""
         THEN json_loads(JsonBlock(response))
    ELSE IF json_loads(GenericBlock(response)).raised = ""
         THEN json_loads(GenericBlock(response))
    ELSE IF json_loads(BraceSpan(response)).raised = ""
         THEN json_loads(BraceSpan(response))
    ELSE ValueError

NoExtraction == [response |-> <<>>, raised |-> "", value |-> <<>>, called |-> FALSE]

\* ------------------------------------------------------ _get_session_context
\* SQL: column != value is true only for a row whose column is not NULL and
\* differs from the value; for a NULL column (here "none") it is NULL and the
\* WHERE clause drops the row
SqlNotEqual(column, value) == column # "none" /\ column # value

\* _get_session_context, lines 462-468: the nugget rows (by position) joined to
\* a node of the session, of score >= 60 and user_feedback != down
ContextRows(d, sid) ==
    {k \in DOMAIN d.nuggets :
        /\ d.nodes[d.nuggets[k].node_id].session_id = sid
        /\ d.nuggets[k].score >= CONTEXT_MIN_SCORE
        /\ SqlNotEqual(d.nuggets[k].user_feedback, "down")}

\* ORDER BY Nugget.score DESC: the orders the database may return rows in
RECURSIVE ByScoreDesc(_, _)
ByScoreDesc(d, rows) ==
    IF rows = {} THEN {<<>>}
    ELSE UNION {{<<k>> \o rest : rest \in ByScoreDesc(d, rows \ {k})} :
                   k \in {k \in rows : \A l \in rows : d.nuggets[k].score >= d.nuggets[l].score}}

\* _get_session_context, lines 461-479: the lists of nuggets it can put under
\* "Previous high-value nuggets:" (the onboarding lines of the session are
\* left out)
_get_session_context(d, sid) ==
    {SubSeq(o, 1, Min(CONTEXT_LIMIT, Len(o))) : o \in ByScoreDesc(d, ContextRows(d, sid))}

NoContext == [session_id |-> None, nuggets |-> <<>>, called |-> FALSE]

SessionContext(sid, nuggets) == [session_id |-> sid, nuggets |-> nuggets, called |-> TRUE]

\* ------------------------------------------------------- get_graph_subset
\* no call of get_graph_subset yet
NoGraph == [session_id |-> None, max_nodes |-> 0, nodes |-> <<>>, edges |-> {}]

\* the nugget rows joined to a node (outerjoin(Nugget)): none or one
NuggetsOf(d, id) == {k \in DOMAIN d.nuggets : d.nuggets[k].node_id = id}

\* Node.created_at, server_default now(): the time of the inserting
\* transaction, the same for all rows of one request; here the turn the
\* node's first provenance row names
CreatedAt(d, id) ==
    LET rows == {k \in DOMAIN d.provenance : d.provenance[k].node_id = id}
    IN IF rows = {} THEN 0
       ELSE d.provenance[CHOOSE k \in rows : \A l \in rows : k <= l].source_id

EligibleWithDownvoted(d, sid) ==
    {d.nodes[i].id : i \in {i \in DOMAIN d.nodes : d.nodes[i].session_id = sid}}

\* get_graph_subset, lines 888-891: the session's nodes whose joined nugget is
\* not downvoted (user_feedback != down, or NULL: no feedback or no nugget)
Eligible(d, sid) ==
    {d.nodes[i].id : i \in {i \in DOMAIN d.nodes :
        /\ d.nodes[i].session_id = sid
        /\ \A k \in NuggetsOf(d, d.nodes[i].id) : d.nuggets[k].user_feedback # "down"}}

\* ORDER BY Nugget.score DESC NULLS LAST, Node.created_at DESC: row a may come
\* before row b
MayPrecede(d, a, b) ==
    LET na == NuggetsOf(d, a)
        nb == NuggetsOf(d, b)
    IN IF na = {} /\ nb = {} THEN CreatedAt(d, a) >= CreatedAt(d, b)
       ELSE IF nb = {} THEN TRUE
       ELSE IF na = {} THEN FALSE
       ELSE LET sa == d.nuggets[CHOOSE k \in na : TRUE].score
                sb == d.nuggets[CHOOSE k \in nb : TRUE].score
            IN sa > sb \/ (sa = sb /\ CreatedAt(d, a) >= CreatedAt(d, b))

\* the orders the database may return the eligible rows in
Orderings(d, ids) ==
    {o \in [1..Cardinality(ids) -> ids] :
        /\ \A i, j \in DOMAIN o : i # j => o[i] # o[j]
        /\ \A i, j \in DOMAIN o : i < j => MayPrecede(d, o[i], o[j])}

\* get_graph_subset: the results it can return, the nodes by id in row order
\* and the edges by their position in the table
get_graph_subset(d, sid, max_nodes) ==
    {LET nodes == SubSeq(o, 1, IF max_nodes < Len(o) THEN max_nodes ELSE Len(o))
         node_ids == {nodes[i] : i \in DOMAIN nodes}
     IN [session_id |-> sid, max_nodes |-> max_nodes, nodes |-> nodes,
         edges |-> IF nodes = <<>> THEN {}
                   ELSE {k \in DOMAIN d.edges : /\ d.edges[k].session_id = sid
                                                /\ d.edges[k].source_id \in node_ids
                                                /\ d.edges[k].target_id \in node_ids}]
     : o \in Orderings(d, Eligible(d, sid))}

_default_questions_last(nuggets) ==
    IF nuggets = <<>> THEN <<>>
    ELSE <<NextQuestionCandidate(<<"example of", nuggets[Len(nuggets)].title>>,
                                 Len(nuggets) - 1, "example", DEFAULT_QUESTION_SCORES)>>

\* ExtractionPipeline._default_questions
_default_questions(nuggets) ==
    IF nuggets = <<>> THEN <<>>
    ELSE <<NextQuestionCandidate(<<"example of", nuggets[1].title>>, 0, "example",
                                 DEFAULT_QUESTION_SCORES)>>

\* max(result.questions, key=lambda q: q.total_score): the first question of
\* the greatest total
BestQuestion(questions) ==
    questions[CHOOSE i \in DOMAIN questions :
        /\ \A j \in DOMAIN questions :
              question_total_score(questions[j]) <= question_total_score(questions[i])
        /\ \A j \in 1..(i - 1) :
              question_total_score(questions[j]) < question_total_score(questions[i])]

\* run, lines 296-300: the selected question of the metrics
WithSelectedQuestion(res) ==
    IF res.questions = <<>> THEN res
    ELSE [res EXCEPT !.metrics.selected_question = BestQuestion(res.questions).question]

\* --------------------------------------------------------- model outputs
\* ScoreOutput payloads for k candidates: one entry per candidate, or none at all
ScoreOutputs(k, profiles) ==
    {[i \in 1..k |-> ScoredNugget(i - 1, f[i], <<"evidence">>)] : f \in [1..k -> profiles]}
    \cup {<<>>}

\* NextQuestionOutput payloads for k candidates
QuestionOutputs(k) ==
    {<<NextQuestionCandidate(<<"q">>, t, "outcome", <<80, 70, 85, 60, 75>>)>> :
        t \in 0..(k - 1)}

\* the score tuples of SpecQuestions: the one of the test, two of whole
\* weighted sums 63 and 62, and one of sum 62.4
QuestionScoreTuples ==
    {<<80, 70, 85, 60, 75>>, <<77, 69, 72, 57, 35>>, <<62, 62, 62, 62, 62>>,
     <<62, 62, 62, 62, 64>>}

\* NextQuestionOutput payloads of one or two candidates with such scores
QuestionPairOutputs(k) ==
    {<<NextQuestionCandidate(<<"q1">>, 0, "outcome", a)>> : a \in QuestionScoreTuples}
    \cup {<<NextQuestionCandidate(<<"q1">>, 0, "outcome", a),
            NextQuestionCandidate(<<"q2">>, k - 1, "steps", b)>> :
              a, b \in QuestionScoreTuples}

MaxTurn(turns) ==
    LET RECURSIVE M(_)
        M(i) == IF i = 0 THEN 0
                ELSE IF turns[i].turn_number > M(i - 1) THEN turns[i].turn_number
                     ELSE M(i - 1)
    IN M(Len(turns))

\* ---------------------------------------------------------------- actions
\* ------------------------------------------------- call_llm_with_schema
PromptNames == {"extract_nuggets_v1", "score_nuggets_v1", "next_questions_v1"}
\* what the provider's text does in the try block of lines 256-258: it parses and
\* validates, _extract_json raises ValueError, or model_validate raises ValidationError
Replies == {"valid", "unparseable", "invalid"}

ClientIdle ==
    [pc |-> "idle", prompt_name |-> "", max_retries |-> 0, attempt |-> 0, calls |-> 0,
     response |-> "", replies |-> <<>>, error |-> ""]

ShouldRetryOnceMore(attempt, max_retries) == attempt <= max_retries

\* client.py line 263
ShouldRetry(attempt, max_retries) == attempt < max_retries

\* lines 249-253: the prompt is formatted and the provider called once
ClientCall ==
    /\ cl.pc = "idle"
    /\ \E name \in PromptNames, r \in 0..MaxRetries :
         LET c == [ClientIdle EXCEPT !.prompt_name = name, !.max_retries = r, !.calls = 1]
         IN \/ \E reply \in Replies :
                 cl' = [c EXCEPT !.pc = "loop", !.response = reply, !.replies = <<reply>>]
            \/ cl' = [c EXCEPT !.pc = "raised", !.error = "LLMError"]
    /\ UNCHANGED <<pvars, tx>>

\* lines 255-270: one pass of the loop body
ClientAttempt ==
    /\ cl.pc = "loop"
    /\ cl.attempt <= cl.max_retries
    /\ IF cl.response = "valid"
       THEN cl' = [cl EXCEPT !.pc = "returned"]
       ELSE IF ShouldRetry(cl.attempt, cl.max_retries)
            THEN \/ \E reply \in Replies :
                      cl' = [cl EXCEPT !.attempt = @ + 1, !.calls = @ + 1,
                                       !.response = reply, !.replies = Append(@, reply)]
                 \/ cl' = [cl EXCEPT !.pc = "raised", !.error = "LLMError", !.calls = @ + 1]
            ELSE cl' = [cl EXCEPT !.attempt = @ + 1]
    /\ UNCHANGED <<pvars, tx>>

\* lines 272-274: the loop ran out
ClientExhausted ==
    /\ cl.pc = "loop"
    /\ cl.attempt > cl.max_retries
    /\ cl' = [cl EXCEPT !.pc = "raised", !.error = "ValidationRetryExhaustedError"]
    /\ UNCHANGED <<pvars, tx>>

\* the call is over; the next one starts afresh (no caching, no shared state)
ClientDone ==
    /\ cl.pc \in {"returned", "raised"}
    /\ cl' = ClientIdle
    /\ UNCHANGED <<pvars, tx>>

NextClient == ClientCall \/ ClientAttempt \/ ClientExhausted \/ ClientDone

\* ------------------------------------------------ turn numbering, concurrently
\* Each request has a database session of its own: its SELECT sees the
\* committed rows and the rows it flushed itself; its rows reach the others
\* when it commits.
RequestIdle == [pc |-> "idle", kind |-> "", next_turn |-> 0, chunks |-> 0, flushed |-> <<>>]

TxIdle == [turns |-> <<>>, req |-> [r \in 1..MaxRequests |-> RequestIdle]]

\* select coalesce(max(turn_number), 0) over the rows the request sees
MaxTurnNumber(rows) ==
    LET RECURSIVE M(_)
        M(i) == IF i = 0 THEN 0
                ELSE IF rows[i].turn_number > M(i - 1) THEN rows[i].turn_number
                     ELSE M(i - 1)
    IN M(Len(rows))

ChatTurn(n, role, r) == [turn_number |-> n, role |-> role, request |-> r]

\* a chat_turn or an upload request arrives (an upload with its chunks)
RequestArrives(r) ==
    /\ tx.req[r].pc = "idle"
    /\ \/ tx' = [tx EXCEPT !.req[r] = [RequestIdle EXCEPT !.pc = "select", !.kind = "chat"]]
       \/ \E n \in 1..MaxChunks :
            tx' = [tx EXCEPT !.req[r] =
                      [RequestIdle EXCEPT !.pc = "select", !.kind = "upload", !.chunks = n]]
    /\ UNCHANGED <<pvars, cl>>

\* chat.py 84-90, upload.py 112-117: next_turn = max(turn_number) + 1
SelectNextTurn(r) ==
    /\ tx.req[r].pc = "select"
    /\ tx' = [tx EXCEPT !.req[r].next_turn =
                            MaxTurnNumber(tx.turns \o tx.req[r].flushed) + 1,
                        !.req[r].pc = "insert"]
    /\ UNCHANGED <<pvars, cl>>

\* chat.py 92-100: the user turn is added and flushed;
\* upload.py 119-129: a chunk's turn is added and flushed, and next_turn += 1
InsertTurn(r) ==
    /\ tx.req[r].pc = "insert"
    /\ LET q == tx.req[r]
           row == ChatTurn(q.next_turn, "user", r)
       IN IF q.kind = "chat"
          THEN tx' = [tx EXCEPT !.req[r].flushed = Append(@, row), !.req[r].pc = "run"]
          ELSE tx' = [tx EXCEPT !.req[r].flushed = Append(@, row),
                                !.req[r].next_turn = @ + 1,
                                !.req[r].chunks = @ - 1,
                                !.req[r].pc = "run"]
    /\ UNCHANGED <<pvars, cl>>

\* chat.py 102-107, upload.py 131-138: pipeline.run on the turn; it returns,
\* or an exception leaves the request and its rows are never committed
RunReturns(r) ==
    /\ tx.req[r].pc = "run"
    /\ \/ tx' = [tx EXCEPT !.req[r].pc =
                      IF tx.req[r].kind = "upload" /\ tx.req[r].chunks > 0
                      THEN "insert" ELSE "respond"]
       \/ tx' = [tx EXCEPT !.req[r] = [RequestIdle EXCEPT !.pc = "done"]]
    /\ UNCHANGED <<pvars, cl>>

\* chat.py 116-123 and 260-267: the assistant turn gets next_turn + 1;
\* upload.py 184-191: it gets next_turn; then the commit
CommitAssistantTurn(r) ==
    /\ tx.req[r].pc = "respond"
    /\ LET q == tx.req[r]
           n == IF q.kind = "chat" THEN q.next_turn + 1 ELSE q.next_turn
       IN tx' = [tx EXCEPT !.turns = @ \o Append(q.flushed, ChatTurn(n, "assistant", r)),
                           !.req[r] = [RequestIdle EXCEPT !.pc = "done"]]
    /\ UNCHANGED <<pvars, cl>>

NextTurns ==
    \E r \in 1..MaxRequests :
        \/ RequestArrives(r)
        \/ SelectNextTurn(r)
        \/ InsertTurn(r)
        \/ RunReturns(r)
        \/ CommitAssistantTurn(r)

\* ---------------------------------------------------------------- requests

Init ==
    /\ db = EmptyDb
    /\ committed = EmptyDb
    /\ pc = "idle"
    /\ result = PipelineResult
    /\ existing_nodes = <<>>
    /\ chat_turn_id = None
    /\ raised = ""
    /\ log = {}
    /\ nruns = 0
    /\ ncands = 0
    /\ nedits = 0
    /\ extract_output = <<>>
    /\ emitted = <<>>
    /\ session_rate = NoRate
    /\ graph = NoGraph
    /\ validated = NoCandidate
    /\ extracted = NoExtraction
    /\ session_context = NoContext
    /\ nugget_log = <<>>
    /\ cl = ClientIdle
    /\ tx = TxIdle

\* the session of the current request: ExtractionPipeline.session_id
session_id == db.turns[chat_turn_id].session_id

\* create_chat_turn, lines 74-107, and run, lines 135-145, for a request on a
\* session of S, the n-th request at most: the user turn is flushed, a fresh
\* PipelineResult is made, the session context is built and the session's
\* existing nodes are read
BeginTurnIn(S, n) ==
    /\ pc = "idle"
    /\ nruns < n
    /\ \E sid \in S :
         LET next_turn == MaxTurn(SelectSeq(db.turns, LAMBDA t : t.session_id = sid)) + 1
             user_turn == [id |-> Len(db.turns) + 1, session_id |-> sid,
                           turn_number |-> next_turn, role |-> "user"]
         IN /\ db' = [db EXCEPT !.turns = Append(@, user_turn)]
            /\ chat_turn_id' = user_turn.id
            /\ \E nuggets \in _get_session_context(db, sid) :
                  session_context' = SessionContext(sid, nuggets)
            /\ existing_nodes' = _get_existing_nodes(db, sid)
    /\ result' = PipelineResult
    /\ raised' = ""
    /\ log' = {}
    /\ nruns' = nruns + 1
    /\ pc' = "extract"
    /\ UNCHANGED <<committed, ncands, nedits, extract_output, emitted, session_rate, graph, validated, extracted, nugget_log, cl, tx>>

BeginTurn == BeginTurnIn({1}, MaxRuns)

\* round(x, 3) of the ratio x = r[1] / r[2], in thousandths
RoundThousandths(r) == (2000 * r[1] + r[2]) \div (2 * r[2])

\* ExtractionPipeline._emit_metrics: the turn_metrics dict of the log record
_emit_metrics(metrics) ==
    [extracted_count |-> metrics.extracted_count,
     scored_count |-> metrics.scored_count,
     created_count |-> metrics.created_count,
     merged_count |-> metrics.merged_count,
     linked_count |-> metrics.linked_count,
     demoted_generic_count |-> metrics.demoted_generic_count,
     dedup_trigger_count |-> metrics.dedup_trigger_count,
     dedup_rate |-> RoundThousandths(metrics.dedup_rate),
     contradiction_count |-> metrics.contradiction_count,
     extraction_failed |-> metrics.extraction_failed]

ExtractionFailedNoReason(res) ==
    [res EXCEPT !.extraction_failed = TRUE, !.metrics.extraction_failed = TRUE]

ExtractionFailedWrongReason(res) ==
    [res EXCEPT !.extraction_failed = TRUE, !.failure_reason = QUALITY_FAILURE,
                !.metrics.extraction_failed = TRUE]

ExtractionFailedMetricsUnset(res) ==
    [res EXCEPT !.extraction_failed = TRUE, !.failure_reason = EXTRACTION_FAILURE]

\* run, lines 153-158 and 162-167: the terminal extraction failure
ExtractionFailed(res) ==
    [res EXCEPT !.extraction_failed = TRUE, !.failure_reason = EXTRACTION_FAILURE,
                !.metrics.extraction_failed = TRUE]

\* run, lines 147-174, with the candidates drawn from lists over pool of at most n
ExtractFrom(pool, n) ==
    /\ pc = "extract"
    /\ \E outcome \in LLMOutcomes :
         \/ /\ outcome = "llmerror"
            /\ raised' = "LLMError"
            /\ pc' = "raised"
            /\ UNCHANGED <<result, log, ncands, extract_output, emitted>>
         \/ /\ outcome = "vree"
            /\ result' = ExtractionFailed(result)
            /\ emitted' = Append(emitted, _emit_metrics(result'.metrics))
            /\ log' = log \cup {"Extraction failed"}
            /\ pc' = "returned"
            /\ UNCHANGED <<raised, ncands, extract_output>>
         \/ /\ outcome = "ok"
            /\ \E nuggets \in SeqsUpTo(pool, n) :
                 /\ ncands' = ncands + Len(nuggets)
                 /\ extract_output' = nuggets
                 /\ IF nuggets = <<>>
                    THEN /\ result' = ExtractionFailed(
                                          [result EXCEPT !.extracted_nuggets = nuggets])
                         /\ emitted' = Append(emitted, _emit_metrics(result'.metrics))
                         /\ pc' = "returned"
                    ELSE /\ result' = [result EXCEPT
                                          !.extracted_nuggets = FilterLowConfidence(nuggets),
                                          !.metrics.extracted_count =
                                              Len(FilterLowConfidence(nuggets))]
                         /\ emitted' = emitted
                         /\ pc' = "score"
            /\ UNCHANGED <<raised, log>>
    /\ UNCHANGED <<db, committed, existing_nodes, chat_turn_id, nruns, nedits, session_rate, graph, validated, extracted, session_context, nugget_log, cl, tx>>

ThresholdCheckOnlyEmpty(res) ==
    IF res.scored_nuggets = <<>>
    THEN [res EXCEPT !.extraction_failed = TRUE, !.failure_reason = QUALITY_FAILURE,
                     !.metrics.extraction_failed = TRUE]
    ELSE [res EXCEPT !.metrics.scored_count = Len(res.scored_nuggets)]

\* run, lines 199-214, after the scores are in: the threshold check, and
\* scored_count on the path that goes on
ThresholdCheck(res) ==
    IF valid_nuggets(res.scored_nuggets) = <<>>
    THEN [res EXCEPT !.extraction_failed = TRUE, !.failure_reason = QUALITY_FAILURE,
                     !.metrics.extraction_failed = TRUE]
    ELSE [res EXCEPT !.metrics.scored_count = Len(res.scored_nuggets)]

\* run, lines 176-197: the scores are stored and the generic ones counted
WithScores(res, scored) ==
    [res EXCEPT !.scored_nuggets = scored,
                !.metrics.demoted_generic_count =
                    Cardinality({i \in DOMAIN scored :
                        scored[i].dimension_scores.novelty < ANTI_GENERIC_NOVELTY_THRESHOLD})]

\* the counters if every dedup trigger counted as a merge
WithDecisionsAllMerged(res, decisions) ==
    LET merged == Cardinality({i \in DOMAIN decisions : decisions[i].outcome # "create"})
        linked == Cardinality({i \in DOMAIN decisions :
                                  decisions[i].outcome \in {"link_expands", "link_related"}})
    IN [res EXCEPT !.dedup_decisions = decisions,
                   !.metrics.merged_count = merged,
                   !.metrics.linked_count = linked,
                   !.metrics.dedup_trigger_count = merged + linked,
                   !.metrics.dedup_rate =
                       IF Len(decisions) > 0 THEN <<merged + linked, Len(decisions)>>
                       ELSE <<0, 1>>]

\* run, lines 246-257: the dedup counters of the metrics
WithDecisions(res, decisions) ==
    LET merged == Cardinality({i \in DOMAIN decisions : decisions[i].outcome = "merge"})
        linked == Cardinality({i \in DOMAIN decisions :
                                  decisions[i].outcome \in {"link_expands", "link_related"}})
    IN [res EXCEPT !.dedup_decisions = decisions,
                   !.metrics.merged_count = merged,
                   !.metrics.linked_count = linked,
                   !.metrics.dedup_trigger_count = merged + linked,
                   !.metrics.dedup_rate =
                       IF Len(decisions) > 0 THEN <<merged + linked, Len(decisions)>>
                       ELSE <<0, 1>>]

\* run, lines 176-222, with the scoring output drawn from outputs
ScoreOutOf(outputs) ==
    /\ pc = "score"
    /\ \E outcome \in LLMOutcomes :
         \/ /\ outcome = "llmerror"
            /\ raised' = "LLMError"
            /\ pc' = "raised"
            /\ UNCHANGED <<result, log>>
         \/ /\ outcome = "vree"
            /\ result' = ThresholdCheck(
                   WithScores(result, _default_scores(result.extracted_nuggets)))
            /\ log' = log \cup {"Scoring failed"}
            /\ pc' = IF result'.extraction_failed THEN "returned" ELSE "dedup"
            /\ UNCHANGED raised
         \/ /\ outcome = "ok"
            /\ \E scored \in outputs :
                 result' = ThresholdCheck(WithScores(result, scored))
            /\ pc' = IF result'.extraction_failed THEN "returned" ELSE "dedup"
            /\ UNCHANGED <<raised, log>>
    /\ emitted' = IF result'.extraction_failed
                  THEN Append(emitted, _emit_metrics(result'.metrics)) ELSE emitted
    /\ extract_output' = <<>>
    /\ UNCHANGED <<db, committed, existing_nodes, chat_turn_id, nruns, ncands, nedits, session_rate, graph, validated, extracted, session_context, nugget_log, cl, tx>>

\* the same with one entry per candidate, its dimension scores drawn from profiles
ScoreFrom(profiles) ==
    ScoreOutOf(ScoreOutputs(Len(result.extracted_nuggets), profiles))

\* run, lines 224-257. _deduplicate makes no model call, so it never raises the
\* ValidationRetryExhaustedError the except clause names; a ValidationError
\* from DedupDecision(...) is not caught and leaves run
Dedup ==
    /\ pc = "dedup"
    /\ IF DedupRaises(result.extracted_nuggets, existing_nodes)
       THEN /\ raised' = "ValidationError"
            /\ pc' = "raised"
            /\ UNCHANGED result
       ELSE /\ result' = WithDecisions(result,
                             _deduplicate(result.extracted_nuggets, existing_nodes))
            /\ pc' = "persist"
            /\ UNCHANGED raised
    /\ UNCHANGED <<db, committed, existing_nodes, chat_turn_id, log, nruns, ncands, nedits, extract_output, emitted, session_rate, graph, validated, extracted, session_context, nugget_log, cl, tx>>

\* the persist stage with its flushes turned into commits
PersistCommitting ==
    /\ pc = "persist"
    /\ LET st == _persist_graph(db, result, chat_turn_id)
       IN /\ db' = [db EXCEPT !.nodes = st.nodes, !.nuggets = st.nuggets,
                              !.provenance = st.provenance, !.edges = st.edges]
          /\ result' = [result EXCEPT !.created_nodes = st.created_nodes,
                                      !.created_edges = st.created_edges,
                                      !.created_nuggets = st.created_nuggets,
                                      !.metrics.created_count =
                                          IF st.raised # "" THEN @ ELSE Len(st.created_nodes)]
          /\ raised' = st.raised
          /\ pc' = IF st.raised # "" THEN "raised" ELSE "contradict"
    /\ committed' = db'
    /\ UNCHANGED <<existing_nodes, chat_turn_id, log, nruns, ncands, nedits, extract_output, emitted, session_rate, graph, validated, extracted, session_context, nugget_log, cl, tx>>

\* run, lines 259-269
Persist ==
    /\ pc = "persist"
    /\ LET st == _persist_graph(db, result, chat_turn_id)
       IN /\ db' = [db EXCEPT !.nodes = st.nodes, !.nuggets = st.nuggets,
                              !.provenance = st.provenance, !.edges = st.edges]
          /\ result' = [result EXCEPT !.created_nodes = st.created_nodes,
                                      !.created_edges = st.created_edges,
                                      !.created_nuggets = st.created_nuggets,
                                      !.metrics.created_count =
                                          IF st.raised # "" THEN @ ELSE Len(st.created_nodes)]
          /\ raised' = st.raised
          /\ pc' = IF st.raised # "" THEN "raised" ELSE "contradict"
    /\ UNCHANGED <<committed, existing_nodes, chat_turn_id, log, nruns, ncands, nedits, extract_output, emitted, session_rate, graph, validated, extracted, session_context, nugget_log, cl, tx>>

\* run, lines 271-276
DetectContradictions ==
    /\ pc = "contradict"
    /\ LET contradiction_edges ==
               _detect_contradictions(session_id, result.created_nodes, existing_nodes)
       IN /\ db' = [db EXCEPT !.edges = @ \o contradiction_edges]
          /\ result' = [result EXCEPT
                           !.metrics.contradiction_count = Len(contradiction_edges)]
    /\ pc' = "questions"
    /\ UNCHANGED <<committed, existing_nodes, chat_turn_id, raised, log, nruns, ncands, nedits, extract_output, emitted, session_rate, graph, validated, extracted, session_context, nugget_log, cl, tx>>

\* run, lines 278-315, with the model's answer drawn from outputs
GenerateQuestionsFrom(outputs) ==
    /\ pc = "questions"
    /\ \E outcome \in LLMOutcomes :
         \/ /\ outcome = "llmerror"
            /\ raised' = "LLMError"
            /\ pc' = "raised"
            /\ UNCHANGED <<result, log, emitted, session_rate>>
         \/ /\ outcome = "vree"
            /\ result' = WithSelectedQuestion([result EXCEPT
                             !.questions = _default_questions(result.extracted_nuggets),
                             !.why_primary = DEFAULT_WHY])
            /\ emitted' = Append(emitted, _emit_metrics(result'.metrics))
            /\ session_rate' = SessionRateRecord(db, session_id)
            /\ log' = log \cup {"Question generation failed"}
            /\ pc' = "returned"
            /\ UNCHANGED raised
         \/ /\ outcome = "ok"
            /\ \E qs \in outputs :
                 result' = WithSelectedQuestion(
                               [result EXCEPT !.questions = qs, !.why_primary = "why"])
            /\ emitted' = Append(emitted, _emit_metrics(result'.metrics))
            /\ session_rate' = SessionRateRecord(db, session_id)
            /\ pc' = "returned"
            /\ UNCHANGED <<raised, log>>
    /\ UNCHANGED <<db, committed, existing_nodes, chat_turn_id, nruns, ncands, nedits, extract_output, graph, validated, extracted, session_context, nugget_log, cl, tx>>

GenerateQuestions ==
    GenerateQuestionsFrom(QuestionOutputs(Len(result.extracted_nuggets)))

\* Nugget.id of a nugget row: its position in the table (node_id is unique)
NuggetId(d, nugget) == CHOOSE k \in DOMAIN d.nuggets : d.nuggets[k].node_id = nugget.node_id

\* create_chat_turn, lines 163-167: created nuggets that are not downvoted, by
\* score (sorted is stable), the first four
RECURSIVE SortedByScore(_)
SortedByScore(nuggets) ==
    IF nuggets = <<>> THEN <<>>
    ELSE LET first == CHOOSE i \in DOMAIN nuggets :
                        /\ \A j \in DOMAIN nuggets : nuggets[j].score <= nuggets[i].score
                        /\ \A j \in 1..(i - 1) : nuggets[j].score < nuggets[i].score
         IN <<nuggets[first]>>
            \o SortedByScore(SubSeq(nuggets, 1, first - 1)
                                 \o SubSeq(nuggets, first + 1, Len(nuggets)))

captured_nuggets(res) ==
    LET kept == SortedByScore(SelectSeq(res.created_nuggets,
                                        LAMBDA n : n.user_feedback # "down"))
    IN SubSeq(kept, 1, Min(CAPTURED_LIMIT, Len(kept)))

NoQuestion == [question |-> <<>>, target_nugget_id |-> None, gap_type |-> "",
               why_this_next |-> ""]

\* create_chat_turn, lines 177-227: the next_question of the response.
\* sorted(..., reverse=True) is stable, so the primary question is the first
\* of the greatest total.
next_question(d, res) ==
    LET primary == BestQuestion(res.questions)
        target_nugget_id ==
            IF res.questions # <<>>
               /\ primary.target_nugget_index < Len(res.created_nuggets)
            THEN NuggetId(d, res.created_nuggets[primary.target_nugget_index + 1])
            ELSE None
        captured == captured_nuggets(res)
    IN IF target_nugget_id # None
       THEN [question |-> primary.question, target_nugget_id |-> target_nugget_id,
             gap_type |-> primary.gap_type, why_this_next |-> res.why_primary]
       ELSE IF captured # <<>>
       THEN [question |-> <<"example of", captured[1].title>>,
             target_nugget_id |-> NuggetId(d, captured[1]),
             gap_type |-> "example", why_this_next |-> FALLBACK_WHY]
       ELSE NoQuestion

\* create_chat_turn, lines 170-171: the counts of graph_update_summary
graph_update_node_count(res) == Len(res.created_nodes)
graph_update_edge_count(res) == Len(res.created_edges)

\* create_chat_turn, lines 109-123 and 254-267: the assistant turn and the commit
Respond ==
    /\ pc = "returned"
    /\ LET user_turn == db.turns[chat_turn_id]
           assistant_turn == [id |-> Len(db.turns) + 1,
                              session_id |-> user_turn.session_id,
                              turn_number |-> user_turn.turn_number + 1,
                              role |-> "assistant"]
       IN db' = [db EXCEPT !.turns = Append(@, assistant_turn)]
    /\ committed' = db'
    /\ pc' = "idle"
    /\ result' = PipelineResult
    /\ existing_nodes' = <<>>
    /\ chat_turn_id' = None
    /\ log' = {}
    /\ extract_output' = <<>>
    /\ emitted' = <<>>
    /\ session_rate' = NoRate
    /\ session_context' = NoContext
    /\ UNCHANGED <<raised, nruns, ncands, nedits, graph, validated, extracted, nugget_log, cl, tx>>

\* an exception escaped run and create_chat_turn: the request's database
\* session ends without a commit and its flushed rows are discarded
Abort ==
    /\ pc = "raised"
    /\ db' = committed
    /\ pc' = "idle"
    /\ result' = PipelineResult
    /\ existing_nodes' = <<>>
    /\ chat_turn_id' = None
    /\ raised' = ""
    /\ log' = {}
    /\ extract_output' = <<>>
    /\ emitted' = <<>>
    /\ session_rate' = NoRate
    /\ session_context' = NoContext
    /\ UNCHANGED <<committed, nruns, ncands, nedits, graph, validated, extracted, nugget_log, cl, tx>>

\* routes/graph.py edit_node: overwrite a node's title (and its nugget's) and
\* commit, in a request of its own between chat requests
EditNode ==
    /\ pc = "idle"
    /\ nedits < MaxEdits
    /\ \E i \in 1..Len(committed.nodes), t \in EditTitles :
         LET upd(d) == [d EXCEPT !.nodes[i].title = t.title,
                                 !.nodes[i].title_len = t.title_len,
                                 !.nuggets = [k \in 1..Len(@) |->
                                     IF @[k].node_id = d.nodes[i].id
                                     THEN [@[k] EXCEPT !.title = t.title] ELSE @[k]]]
         IN /\ db' = upd(db)
            /\ committed' = upd(committed)
    /\ nedits' = nedits + 1
    /\ UNCHANGED <<pc, result, existing_nodes, chat_turn_id, raised, log, nruns, ncands, extract_output, emitted, session_rate, graph, validated, extracted, session_context, nugget_log, cl, tx>>

\* ------------------------------------------------------------ routes/nugget.py
\* the same without the cap of the boosted score
FeedbackScoreUncapped(nugget, feedback) ==
    IF feedback = "up"
    THEN IF nugget.user_feedback # "up" THEN nugget.score + UPVOTE_SCORE_BOOST
         ELSE nugget.score
    ELSE IF nugget.user_feedback = "up"
         THEN Max(0, nugget.score - UPVOTE_SCORE_BOOST)
         ELSE nugget.score

\* submit_nugget_feedback, lines 59-67: the score after feedback on a nugget
FeedbackScore(nugget, feedback) ==
    IF feedback = "up"
    THEN IF nugget.user_feedback # "up"
         THEN Min(MAX_SCORE, nugget.score + UPVOTE_SCORE_BOOST)
         ELSE nugget.score
    ELSE IF nugget.user_feedback = "up"
         THEN Max(0, nugget.score - UPVOTE_SCORE_BOOST)
         ELSE nugget.score

\* what a request of the nugget routes found and left
NuggetRequest(route, id, request, before, after) ==
    [route |-> route, nugget_id |-> id, request |-> request, before |-> before,
     after |-> after]

\* submit_nugget_feedback, lines 28-81: a request of its own between chat
\* requests, one of the first max_requests of the nugget routes; the nugget's
\* id is its position; the request commits
SubmitFeedbackUpTo(max_requests) ==
    /\ pc = "idle"
    /\ Len(nugget_log) < max_requests
    /\ \E k \in 1..Len(committed.nuggets), feedback \in FeedbackValue :
         LET nugget == committed.nuggets[k]
             upd(d) == [d EXCEPT !.nuggets[k].user_feedback = feedback,
                                 !.nuggets[k].score = FeedbackScore(nugget, feedback)]
         IN /\ db' = upd(db)
            /\ committed' = upd(committed)
            /\ nugget_log' = Append(nugget_log,
                                 NuggetRequest("feedback", k, feedback, nugget,
                                               committed'.nuggets[k]))
    /\ UNCHANGED <<pc, result, existing_nodes, chat_turn_id, raised, log, nruns, ncands,
                   nedits, extract_output, emitted, session_rate, graph, validated, extracted,
                   session_context, cl, tx>>

\* update_nugget_status, lines 158-196: a status that is no NuggetStatus is
\* answered 400 and nothing changes; any other is stored and committed
UpdateStatusUpTo(max_requests) ==
    /\ pc = "idle"
    /\ Len(nugget_log) < max_requests
    /\ \E k \in 1..Len(committed.nuggets), status \in StatusRequests :
         LET nugget == committed.nuggets[k]
             upd(d) == IF status \in NuggetStatus
                       THEN [d EXCEPT !.nuggets[k].status = status] ELSE d
         IN /\ db' = upd(db)
            /\ committed' = upd(committed)
            /\ nugget_log' = Append(nugget_log,
                                 NuggetRequest("status", k, status, nugget,
                                               committed'.nuggets[k]))
    /\ UNCHANGED <<pc, result, existing_nodes, chat_turn_id, raised, log, nruns, ncands,
                   nedits, extract_output, emitted, session_rate, graph, validated, extracted,
                   session_context, cl, tx>>

Extract == ExtractFrom(CandidateNugget, Min(MaxCands, MaxTotalCands - ncands))

Score == ScoreFrom(Profiles)

Next ==
    \/ BeginTurn
    \/ EditNode
    \/ Extract
    \/ Score
    \/ Dedup
    \/ Persist
    \/ DetectContradictions
    \/ GenerateQuestions
    \/ Respond
    \/ Abort

Spec == Init /\ [][Next]_vars

\* the same pipeline on longer candidate lists over fewer titles
ExtractCo == ExtractFrom(CoCandidates, MaxCoCands)

ScoreCo == ScoreFrom(CoProfiles)

NextCo ==
    \/ BeginTurn
    \/ ExtractCo
    \/ ScoreCo
    \/ Dedup
    \/ Persist
    \/ DetectContradictions
    \/ GenerateQuestions
    \/ Respond
    \/ Abort

SpecCo == Init /\ [][NextCo]_vars

SpecClient == Init /\ [][NextClient]_vars

SpecTurns == Init /\ [][NextTurns]_vars

\* ------------------------------------------ the dedup stage on longer titles
\* the session after one request whose run created a node for each of titles:
\* its nodes, nuggets, provenance rows, co-extraction edges and two turns
SessionWith(titles) ==
    LET n == Len(titles)
        scored == ScoredNugget(0, StrongDims, <<"evidence">>)
    IN [nodes |-> [i \in 1..n |->
                      [id |-> i, session_id |-> 1, title |-> titles[i],
                       title_len |-> CANDIDATE_TITLE_MAX]],
        nuggets |-> [i \in 1..n |->
                      [node_id |-> i, title |-> titles[i],
                       score |-> _compute_persisted_score(scored),
                       dimension_scores |-> <<StrongDims>>,
                       missing_fields |-> <<"evidence">>,
                       status |-> "new", user_feedback |-> "none"]],
        provenance |-> [i \in 1..n |->
                      [node_id |-> i, source_type |-> "chat", source_id |-> 1,
                       confidence |-> "high"]],
        edges |-> CoExtractedEdges(1, [i \in 1..n |-> i]),
        turns |-> <<[id |-> 1, session_id |-> 1, turn_number |-> 1, role |-> "user"],
                    [id |-> 2, session_id |-> 1, turn_number |-> 2, role |-> "assistant"]>>]

\* a second request on such a session, its run at the dedup stage with one
\* scored candidate
InitDedup ==
    \E titles \in SeqsUpTo(LongTitles, MaxExisting), candidate \in LongTitles :
        /\ titles # <<>>
        /\ committed = SessionWith(titles)
        /\ db = [committed EXCEPT !.turns =
                    Append(@, [id |-> 3, session_id |-> 1, turn_number |-> 3, role |-> "user"])]
        /\ pc = "dedup"
        /\ result = [PipelineResult EXCEPT
                        !.extracted_nuggets = <<[title |-> candidate, confidence |-> "high"]>>,
                        !.scored_nuggets = <<ScoredNugget(0, StrongDims, <<"evidence">>)>>]
        /\ existing_nodes = _get_existing_nodes(committed, 1)
        /\ chat_turn_id = 3
        /\ raised = ""
        /\ log = {}
        /\ nruns = MaxRuns
        /\ ncands = Len(titles) + 1
        /\ nedits = 0
        /\ extract_output = <<>>
        /\ emitted = <<>>
        /\ session_rate = NoRate
        /\ graph = NoGraph
        /\ validated = NoCandidate
    /\ extracted = NoExtraction
    /\ session_context = NoContext
    /\ nugget_log = <<>>
        /\ cl = ClientIdle
        /\ tx = TxIdle

NextDedup ==
    \/ Dedup
    \/ Persist
    \/ DetectContradictions
    \/ GenerateQuestions
    \/ Respond
    \/ Abort

SpecDedup == InitDedup /\ [][NextDedup]_vars

\* ----------------------------------------- the pipeline on more score profiles
ExtractFew == ExtractFrom(CoCandidates, MaxCands)

ScoreNovelty == ScoreFrom(NoveltyProfiles)

NextScore ==
    \/ BeginTurn
    \/ ExtractFew
    \/ ScoreNovelty
    \/ Dedup
    \/ Persist
    \/ DetectContradictions
    \/ GenerateQuestions
    \/ Respond
    \/ Abort

SpecScore == Init /\ [][NextScore]_vars

\* ------------------------------------ the pipeline on more question scores
GenerateQuestionPairs ==
    GenerateQuestionsFrom(QuestionPairOutputs(Len(result.extracted_nuggets)))

NextQuestions ==
    \/ BeginTurn
    \/ ExtractFew
    \/ ScoreCo
    \/ Dedup
    \/ Persist
    \/ DetectContradictions
    \/ GenerateQuestionPairs
    \/ Respond
    \/ Abort

SpecQuestions == Init /\ [][NextQuestions]_vars

\* ------------------------------------ the pipeline on profiles of whole sums
ScoreTotal == ScoreFrom(TotalProfiles)

NextTotal ==
    \/ BeginTurn
    \/ ExtractFew
    \/ ScoreTotal
    \/ Dedup
    \/ Persist
    \/ DetectContradictions
    \/ GenerateQuestions
    \/ Respond
    \/ Abort

SpecTotal == Init /\ [][NextTotal]_vars

\* ------------------------------ the pipeline on a session with longer titles
InitContra ==
    \E titles \in ContraExisting :
        /\ committed = SessionWith(titles)
        /\ db = committed
        /\ pc = "idle"
        /\ result = PipelineResult
        /\ existing_nodes = <<>>
        /\ chat_turn_id = None
        /\ raised = ""
        /\ log = {}
        /\ nruns = 0
        /\ ncands = Len(titles)
        /\ nedits = 0
        /\ extract_output = <<>>
        /\ emitted = <<>>
        /\ session_rate = NoRate
        /\ graph = NoGraph
        /\ validated = NoCandidate
    /\ extracted = NoExtraction
    /\ session_context = NoContext
    /\ nugget_log = <<>>
        /\ cl = ClientIdle
        /\ tx = TxIdle

BeginTurnContra == BeginTurnIn({1}, MaxContraRuns)

ExtractContra == ExtractFrom(ContraCandidates, MaxCands)

NextContra ==
    \/ BeginTurnContra
    \/ ExtractContra
    \/ ScoreCo
    \/ Dedup
    \/ Persist
    \/ DetectContradictions
    \/ GenerateQuestions
    \/ Respond
    \/ Abort

SpecContra == InitContra /\ [][NextContra]_vars

\* ------------------------------------------ the session dedup rate on its own
Repeat(e, k) == [i \in 1..k |-> e]

\* tables with n nodes in session 1, joined by x expands_on, c contradicts and
\* r related_to edges, and 2 * o nodes with o expands_on edges in session 2
RateDb(n, x, c, r, o) ==
    LET total == n + 2 * o
        sid(i) == IF i <= n THEN 1 ELSE 2
        scored == ScoredNugget(0, StrongDims, <<"evidence">>)
    IN [nodes |-> [i \in 1..total |->
                      [id |-> i, session_id |-> sid(i), title |-> {Vocabulary[i]},
                       title_len |-> CANDIDATE_TITLE_MAX]],
        nuggets |-> [i \in 1..total |->
                      [node_id |-> i, title |-> {Vocabulary[i]},
                       score |-> _compute_persisted_score(scored),
                       dimension_scores |-> <<StrongDims>>,
                       missing_fields |-> <<"evidence">>,
                       status |-> "new", user_feedback |-> "none"]],
        provenance |-> [i \in 1..total |->
                      [node_id |-> i, source_type |-> "chat", source_id |-> sid(i),
                       confidence |-> "high"]],
        edges |-> Repeat(Edge(1, 2, 1, "expands_on"), x)
                  \o Repeat(Edge(1, 2, 1, "contradicts"), c)
                  \o Repeat(Edge(1, 1, 2, "related_to"), r)
                  \o Repeat(Edge(2, n + 2, n + 1, "expands_on"), o),
        turns |-> <<[id |-> 1, session_id |-> 1, turn_number |-> 1, role |-> "user"],
                    [id |-> 2, session_id |-> 2, turn_number |-> 1, role |-> "user"]>>]

InitRate ==
    \E n \in 0..MaxRateNodes, x, c, r \in 0..MaxRateEdges, o \in 0..1 :
        /\ n < 2 => x + c + r = 0
        /\ committed = RateDb(n, x, c, r, o)
        /\ db = committed
        /\ pc = "idle"
        /\ result = PipelineResult
        /\ existing_nodes = <<>>
        /\ chat_turn_id = None
        /\ raised = ""
        /\ log = {}
        /\ nruns = 0
        /\ ncands = 0
        /\ nedits = 0
        /\ extract_output = <<>>
        /\ emitted = <<>>
        /\ session_rate = NoRate
        /\ graph = NoGraph
        /\ validated = NoCandidate
    /\ extracted = NoExtraction
    /\ session_context = NoContext
    /\ nugget_log = <<>>
        /\ cl = ClientIdle
        /\ tx = TxIdle

\* a call of _get_session_dedup_rate by a pipeline made for session sid
CallSessionDedupRate ==
    /\ pc = "idle"
    /\ \E sid \in 1..MaxSessions : session_rate' = SessionRateRecord(db, sid)
    /\ UNCHANGED <<db, committed, pc, result, existing_nodes, chat_turn_id, raised, log, nruns,
                   ncands, nedits, extract_output, emitted, graph, validated, extracted, session_context, nugget_log, cl, tx>>

NextRate == CallSessionDedupRate

SpecRate == InitRate /\ [][NextRate]_vars

\* --------------------------------------------- the title validator on its own
InitTitle ==
    /\ committed = EmptyDb
    /\ db = EmptyDb
    /\ pc = "idle"
    /\ result = PipelineResult
    /\ existing_nodes = <<>>
    /\ chat_turn_id = None
    /\ raised = ""
    /\ log = {}
    /\ nruns = 0
    /\ ncands = 0
    /\ nedits = 0
    /\ extract_output = <<>>
    /\ emitted = <<>>
    /\ session_rate = NoRate
    /\ graph = NoGraph
    /\ validated = NoCandidate
    /\ extracted = NoExtraction
    /\ session_context = NoContext
    /\ nugget_log = <<>>
    /\ cl = ClientIdle
    /\ tx = TxIdle

\* model_validate builds a CandidateNugget from a payload with this title
ValidateCandidate ==
    /\ \E v \in TitleTexts : validated' = ValidateTitle(v)
    /\ UNCHANGED <<db, committed, pc, result, existing_nodes, chat_turn_id, raised, log, nruns,
                   ncands, nedits, extract_output, emitted, session_rate, graph, extracted, session_context, nugget_log, cl, tx>>

NextTitle == ValidateCandidate

SpecTitle == InitTitle /\ [][NextTitle]_vars

\* ------------------------------------------------ the graph subset on its own
\* what a node of the tables below is: without a nugget row (the tables allow
\* it; _persist_graph itself inserts a nugget with every node), or with one of
\* a score and a feedback
NodeKinds ==
    {[nugget |-> FALSE, score |-> 0, user_feedback |-> "none"],
     [nugget |-> TRUE, score |-> 40, user_feedback |-> "none"],
     [nugget |-> TRUE, score |-> 70, user_feedback |-> "none"],
     [nugget |-> TRUE, score |-> 40, user_feedback |-> "up"],
     [nugget |-> TRUE, score |-> 70, user_feedback |-> "down"]}

\* the edge lists of the tables below, among nodes 1, 2 of session 2 and
\* nodes 3, 4, 5 of session 1
GraphEdgeLists ==
    {<<>>,
     <<Edge(1, 4, 3, "expands_on"), Edge(2, 2, 1, "related_to")>>,
     <<Edge(1, 3, 4, "co_extracted"), Edge(1, 5, 4, "related_to"),
       Edge(1, 5, 3, "contradicts")>>}

\* tables with two nodes in session 2 and after them the nodes kinds[1..n] in
\* session 1, the first two made by the request of turn 1 and the others by
\* that of turn 3
GraphDb(kinds, edges) ==
    LET total == Len(kinds) + 2
        sid(i) == IF i <= 2 THEN 2 ELSE 1
        kind(i) == IF i <= 2 THEN [nugget |-> TRUE, score |-> 70, user_feedback |-> "none"]
                   ELSE kinds[i - 2]
        with_nugget == SelectSeq([i \in 1..total |-> i], LAMBDA i : kind(i).nugget)
    IN [nodes |-> [i \in 1..total |->
                      [id |-> i, session_id |-> sid(i), title |-> {Vocabulary[i]},
                       title_len |-> CANDIDATE_TITLE_MAX]],
        nuggets |-> [j \in 1..Len(with_nugget) |->
                      LET i == with_nugget[j]
                      IN [node_id |-> i, title |-> {Vocabulary[i]},
                          score |-> kind(i).score,
                          dimension_scores |-> <<StrongDims>>,
                          missing_fields |-> <<"evidence">>,
                          status |-> "new", user_feedback |-> kind(i).user_feedback]],
        provenance |-> [i \in 1..total |->
                      [node_id |-> i, source_type |-> "chat",
                       source_id |-> IF i <= 2 THEN 2 ELSE IF i <= 4 THEN 1 ELSE 3,
                       confidence |-> "high"]],
        edges |-> SelectSeq(edges, LAMBDA e : e.source_id <= total /\ e.target_id <= total),
        turns |-> <<[id |-> 1, session_id |-> 1, turn_number |-> 1, role |-> "user"],
                    [id |-> 2, session_id |-> 2, turn_number |-> 1, role |-> "user"],
                    [id |-> 3, session_id |-> 1, turn_number |-> 2, role |-> "user"]>>]

InitGraph ==
    \E kinds \in SeqsUpTo(NodeKinds, MaxGraphNodes), edges \in GraphEdgeLists :
        /\ committed = GraphDb(kinds, edges)
        /\ db = committed
        /\ pc = "idle"
        /\ result = PipelineResult
        /\ existing_nodes = <<>>
        /\ chat_turn_id = None
        /\ raised = ""
        /\ log = {}
        /\ nruns = 0
        /\ ncands = 0
        /\ nedits = 0
        /\ extract_output = <<>>
        /\ emitted = <<>>
        /\ session_rate = NoRate
        /\ graph = NoGraph
        /\ validated = NoCandidate
    /\ extracted = NoExtraction
    /\ session_context = NoContext
    /\ nugget_log = <<>>
        /\ cl = ClientIdle
        /\ tx = TxIdle

\* a call of get_graph_subset for a session, with a max_nodes of 1..MaxGraphNodes
CallGetGraphSubset ==
    /\ pc = "idle"
    /\ \E sid \in 1..MaxSessions, max_nodes \in 1..MaxGraphNodes :
          graph' \in get_graph_subset(db, sid, max_nodes)
    /\ UNCHANGED <<db, committed, pc, result, existing_nodes, chat_turn_id, raised, log, nruns,
                   ncands, nedits, extract_output, emitted, session_rate, validated, extracted, session_context, nugget_log, cl, tx>>

NextGraph == CallGetGraphSubset

SpecGraph == InitGraph /\ [][NextGraph]_vars

\* ------------------------------------------------ the JSON extractor on its own
\* the pieces responses are made of: a fence, a json fence, a line break, an
\* object (the payload of the tests, shortened), a number and a word of prose
ResponseParts ==
    {Fence, JsonFence, <<"\n">>, <<"{", "\"", "k", "\"", ":", " ", "1", "}">>, <<"1">>,
     <<"x">>}

RECURSIVE JoinParts(_)
JoinParts(parts) ==
    IF parts = <<>> THEN <<>> ELSE Head(parts) \o JoinParts(Tail(parts))

\* the responses of at most MaxParts pieces
Responses ==
    {JoinParts(parts) : parts \in UNION {[1..n -> ResponseParts] : n \in 0..MaxParts}}

InitJson ==
    /\ committed = EmptyDb
    /\ db = EmptyDb
    /\ pc = "idle"
    /\ result = PipelineResult
    /\ existing_nodes = <<>>
    /\ chat_turn_id = None
    /\ raised = ""
    /\ log = {}
    /\ nruns = 0
    /\ ncands = 0
    /\ nedits = 0
    /\ extract_output = <<>>
    /\ emitted = <<>>
    /\ session_rate = NoRate
    /\ graph = NoGraph
    /\ validated = NoCandidate
    /\ \E response \in Responses : extracted = [NoExtraction EXCEPT !.response = response]
    /\ session_context = NoContext
    /\ nugget_log = <<>>
    /\ cl = ClientIdle
    /\ tx = TxIdle

\* call_llm_with_schema hands a response of the provider to _extract_json
CallExtractJson ==
    /\ ~extracted.called
    /\ extracted' = [response |-> extracted.response,
                     raised |-> _extract_json(extracted.response).raised,
                     value |-> _extract_json(extracted.response).value,
                     called |-> TRUE]
    /\ UNCHANGED <<db, committed, pc, result, existing_nodes, chat_turn_id, raised, log, nruns,
                   ncands, nedits, extract_output, emitted, session_rate, graph, validated,
                   session_context, nugget_log, cl, tx>>

NextJson == CallExtractJson

SpecJson == InitJson /\ [][NextJson]_vars

\* ---------------------------- the pipeline with feedback and status requests
\* score profiles at the ends of the range: totals 100, 98, 3 (halved to 1), 0
EdgeProfiles ==
    {Dims(100, 100, 100, 100, 100, 100), Dims(98, 98, 98, 98, 98, 98),
     Dims(3, 3, 3, 3, 3, 3), Dims(0, 0, 0, 0, 0, 0)}

SubmitFeedback == SubmitFeedbackUpTo(MaxNuggetRequests)

UpdateStatus == UpdateStatusUpTo(MaxNuggetRequests)

BeginTurnNuggets == BeginTurnIn({1}, MaxNuggetRuns)

ExtractNuggets == ExtractFrom(CoCandidates, MaxCands)

ScoreEdges == ScoreFrom(EdgeProfiles)

NextNuggets ==
    \/ BeginTurnNuggets
    \/ ExtractNuggets
    \/ ScoreEdges
    \/ Dedup
    \/ Persist
    \/ DetectContradictions
    \/ GenerateQuestions
    \/ Respond
    \/ Abort
    \/ SubmitFeedback
    \/ UpdateStatus

SpecNuggets == Init /\ [][NextNuggets]_vars

\* --------------------------- the pipeline with any list of score entries
\* ScoreOutput.scored_nuggets is a list of any length whose entries carry any
\* nugget_index >= 0 (schemas.py 136-160): entries can be missing, repeated,
\* or name no candidate
LookupProfiles == {StrongDims, Dims(65, 19, 60, 70, 50, 61)}

ScoreEntries(k) ==
    SeqsUpTo({ScoredNugget(i, d, <<"evidence">>) : i \in 0..k, d \in LookupProfiles},
             MaxScoreEntries)

BeginTurnLookup == BeginTurnIn({1}, MaxLookupRuns)

ExtractLookup == ExtractFrom(CoCandidates, MaxCands)

ScoreLookup == ScoreOutOf(ScoreEntries(Len(result.extracted_nuggets)))

NextLookup ==
    \/ BeginTurnLookup
    \/ ExtractLookup
    \/ ScoreLookup
    \/ Dedup
    \/ Persist
    \/ DetectContradictions
    \/ GenerateQuestions
    \/ Respond
    \/ Abort

SpecLookup == Init /\ [][NextLookup]_vars

\* ------------------------------------------------- feedback on prepared nuggets
\* tables with two nuggets of score 70 in session 2 and one of any score in
\* session 1, none with feedback yet
InitFeedback ==
    \E score \in 0..MAX_SCORE :
        /\ committed = GraphDb(<<[nugget |-> TRUE, score |-> score, user_feedback |-> "none"]>>,
                               <<>>)
        /\ db = committed
        /\ pc = "idle"
        /\ result = PipelineResult
        /\ existing_nodes = <<>>
        /\ chat_turn_id = None
        /\ raised = ""
        /\ log = {}
        /\ nruns = 0
        /\ ncands = 0
        /\ nedits = 0
        /\ extract_output = <<>>
        /\ emitted = <<>>
        /\ session_rate = NoRate
        /\ graph = NoGraph
        /\ validated = NoCandidate
        /\ extracted = NoExtraction
        /\ session_context = NoContext
        /\ nugget_log = <<>>
        /\ cl = ClientIdle
        /\ tx = TxIdle

SubmitFeedbackAlone == SubmitFeedbackUpTo(MaxFeedbacks)

NextFeedback == SubmitFeedbackAlone

SpecFeedback == InitFeedback /\ [][NextFeedback]_vars

\* ------------------------------------------- the session context on its own
\* what a nugget of the tables below is: a score and a feedback
ContextKinds ==
    <<[nugget |-> TRUE, score |-> 59, user_feedback |-> "up"],
      [nugget |-> TRUE, score |-> 70, user_feedback |-> "none"],
      [nugget |-> TRUE, score |-> 70, user_feedback |-> "up"],
      [nugget |-> TRUE, score |-> 80, user_feedback |-> "up"],
      [nugget |-> TRUE, score |-> 90, user_feedback |-> "down"]>>

\* the nuggets of session 1: up to MaxContextNodes of these kinds, listed kind
\* by kind
ContextTables ==
    {[i \in DOMAIN ks |-> ContextKinds[ks[i]]] :
        ks \in {ks \in SeqsUpTo(DOMAIN ContextKinds, MaxContextNodes) :
                   \A i, j \in DOMAIN ks : i < j => ks[i] <= ks[j]}}

InitContext ==
    \E kinds \in ContextTables :
        /\ committed = GraphDb(kinds, <<>>)
        /\ db = committed
        /\ pc = "idle"
        /\ result = PipelineResult
        /\ existing_nodes = <<>>
        /\ chat_turn_id = None
        /\ raised = ""
        /\ log = {}
        /\ nruns = 0
        /\ ncands = 0
        /\ nedits = 0
        /\ extract_output = <<>>
        /\ emitted = <<>>
        /\ session_rate = NoRate
        /\ graph = NoGraph
        /\ validated = NoCandidate
        /\ extracted = NoExtraction
        /\ session_context = NoContext
        /\ nugget_log = <<>>
        /\ cl = ClientIdle
        /\ tx = TxIdle

\* run, line 143: the context of a session is built
CallSessionContext ==
    /\ pc = "idle"
    /\ ~session_context.called
    /\ \E sid \in 1..MaxSessions :
         \E nuggets \in _get_session_context(db, sid) :
            session_context' = SessionContext(sid, nuggets)
    /\ UNCHANGED <<db, committed, pc, result, existing_nodes, chat_turn_id, raised, log, nruns,
                   ncands, nedits, extract_output, emitted, session_rate, graph, validated,
                   extracted, nugget_log, cl, tx>>

NextContext == CallSessionContext

SpecContext == InitContext /\ [][NextContext]_vars

\* --------------------------------------------- the pipeline on several sessions
BeginTurnAny == BeginTurnIn(1..MaxSessions, MaxSessionRuns)

ExtractNegating ==
    ExtractFrom(NegatingCandidates, Min(MaxCands, MaxSessionCands - ncands))

NextSessions ==
    \/ BeginTurnAny
    \/ ExtractNegating
    \/ ScoreCo
    \/ Dedup
    \/ Persist
    \/ DetectContradictions
    \/ GenerateQuestions
    \/ Respond
    \/ Abort

SpecSessions == Init /\ [][NextSessions]_vars

\* ------------------------------------------------------------------ claims
AfterScore == {"dedup", "persist", "contradict", "questions", "returned"}
AfterPersist == {"contradict", "questions", "returned"}

\* the run has added no node, nugget, provenance or edge row to its session
NoInserts ==
    /\ db.nodes = committed.nodes
    /\ db.nuggets = committed.nuggets
    /\ db.provenance = committed.provenance
    /\ db.edges = committed.edges

\* C1: a run whose extraction gave no candidate (an empty list, or validation
\* retries exhausted) goes no further than its return: it returns
\* extraction_failed with the "no distinct ideas" reason and has inserted nothing.
C1_ExtractionFailureIsTerminal ==
    /\ (pc \in {"score"} \cup AfterScore /\ result.extracted_nuggets = <<>>)
          => /\ pc = "returned"
             /\ result.extraction_failed
             /\ result.failure_reason = EXTRACTION_FAILURE
             /\ NoInserts
    /\ "Extraction failed" \in log => (pc = "returned" /\ result.extracted_nuggets = <<>>)

C1_Witness ==
    /\ pc = "returned"
    /\ result.extracted_nuggets = <<>>
    /\ result.extraction_failed
    /\ committed.nodes # <<>>

\* C2: a run whose scored candidates all total below 30 returns
\* extraction_failed with the "too vague or general" reason right after
\* scoring, having inserted nothing, although extraction gave candidates.
C2_QualityFailureIsTerminal ==
    (/\ pc \in AfterScore
     /\ result.extracted_nuggets # <<>>
     /\ \A i \in DOMAIN result.scored_nuggets :
            total_score(result.scored_nuggets[i].dimension_scores) < MIN_SCORE_THRESHOLD)
        => /\ pc = "returned"
           /\ result.extraction_failed
           /\ result.failure_reason = QUALITY_FAILURE
           /\ NoInserts

C2_Witness ==
    /\ pc = "returned"
    /\ result.failure_reason = QUALITY_FAILURE
    /\ result.scored_nuggets # <<>>
    /\ committed.nodes # <<>>

\* C3: an LLMError raised by the provider call never escapes run.
C3_TransportErrorNeverEscapes == raised # "LLMError"

\* the storage-level counterpart of an extraction confidence
ConfidenceCounterpart(c) == IF c = "medium" THEN "med" ELSE c

\* the provenance rows the current run has added
NewProvenance ==
    SubSeq(db.provenance, Len(committed.provenance) + 1, Len(db.provenance))

\* C4: for candidates of any accepted confidence the persist stage completes,
\* and it has then written, for each candidate in turn, one provenance row
\* with the counterpart of the candidate's confidence.
C4_ProvenanceKeepsConfidence ==
    /\ raised # "ValueError"
    /\ pc \in AfterPersist =>
          /\ Len(NewProvenance) = Len(result.extracted_nuggets)
          /\ \A i \in DOMAIN NewProvenance :
                NewProvenance[i].confidence =
                    ConfidenceCounterpart(result.extracted_nuggets[i].confidence)

\* the edges the loop over the candidates made: one per link decision
LinkEdgeCount ==
    Cardinality({i \in DOMAIN result.dedup_decisions :
                    /\ result.dedup_decisions[i].outcome \in {"link_expands", "link_related"}
                    /\ result.dedup_decisions[i].existing_node_id # None})

\* the edges of the run's co-extraction pass: created_edges past the link edges
CoPassEdges ==
    SubSeq(result.created_edges, LinkEdgeCount + 1, Len(result.created_edges))

\* the node was in the session before the current run
IsExisting(id) == id <= Len(committed.nodes)

\* C5: the co-extraction pass makes no edge with an endpoint that existed
\* before the run (a merged-into node).
C5_CoExtractionSkipsExistingNodes ==
    pc \in AfterPersist =>
        \A k \in DOMAIN CoPassEdges :
            /\ ~IsExisting(CoPassEdges[k].source_id)
            /\ ~IsExisting(CoPassEdges[k].target_id)

Related(edges, a, b) ==
    \E k \in DOMAIN edges :
        /\ edges[k].edge_type = "related_to"
        /\ {edges[k].source_id, edges[k].target_id} = {a, b}

\* the chat turn whose run created the node: the source of its first provenance row
CreatedBy(d, id) ==
    LET rows == SelectSeq(d.provenance, LAMBDA p : p.node_id = id)
    IN IF rows = <<>> THEN None ELSE Head(rows).source_id

\* C6: once the persist stage of a run is through, every two distinct nodes
\* that run created are joined by a related_to edge; so are, in the committed
\* graph, every two nodes that one run created.
C6_CoExtractedNodesAreRelated ==
    /\ pc \in AfterPersist =>
          \A i, j \in DOMAIN result.created_nodes :
              i # j => Related(db.edges, result.created_nodes[i].id,
                               result.created_nodes[j].id)
    /\ \A a, b \in DOMAIN committed.nodes :
          (a # b /\ CreatedBy(committed, a) = CreatedBy(committed, b))
              => Related(committed.edges, a, b)

C6_Witness ==
    /\ pc = "returned"
    /\ Len(result.created_nodes) >= 2
    /\ committed.nodes # <<>>

\* C7: the co-extraction pass makes no self-edge and at most one edge per
\* unordered pair of nodes.
C7_CoExtractionEdgesAreUnique ==
    pc \in AfterPersist =>
        /\ \A k \in DOMAIN CoPassEdges : CoPassEdges[k].source_id # CoPassEdges[k].target_id
        /\ \A k, m \in DOMAIN CoPassEdges :
              k # m => {CoPassEdges[k].source_id, CoPassEdges[k].target_id}
                        # {CoPassEdges[m].source_id, CoPassEdges[m].target_id}

AllFail(replies) == \A i \in DOMAIN replies : replies[i] # "valid"

\* C8: a call with max_retries = r invokes the provider at most r + 1 times;
\* it returns on the first reply that parses and validates, with no call after
\* it; it raises ValidationRetryExhaustedError exactly when r + 1 replies were
\* received and all failed.
C8_BoundedRetries ==
    /\ cl.calls <= cl.max_retries + 1
    /\ cl.calls = Len(cl.replies) + (IF cl.error = "LLMError" THEN 1 ELSE 0)
    /\ cl.pc = "returned" =>
          /\ cl.replies[Len(cl.replies)] = "valid"
          /\ AllFail(SubSeq(cl.replies, 1, Len(cl.replies) - 1))
    /\ cl.error = "ValidationRetryExhaustedError" =>
          /\ Len(cl.replies) = cl.max_retries + 1
          /\ AllFail(cl.replies)
    /\ (cl.pc \in {"returned", "raised"} /\ Len(cl.replies) = cl.max_retries + 1
        /\ AllFail(cl.replies))
          => cl.error = "ValidationRetryExhaustedError"
    /\ (cl.error = "ValidationRetryExhaustedError" /\ cl.max_retries = DEFAULT_MAX_RETRIES)
          => cl.calls = 2

C8_Witness ==
    /\ cl.error = "ValidationRetryExhaustedError"
    /\ cl.max_retries = DEFAULT_MAX_RETRIES
    /\ cl.calls = 2

ScoringFailed(l) == "Scoring failed" \in l

C10_DedupFailureNeverAborts == raised # "ValidationError"

QuestionsFailed(l) == "Question generation failed" \in l

\* the fallback question for a candidate title
FallbackQuestion(title) ==
    [question |-> <<"example of", title>>, target_nugget_index |-> 0, gap_type |-> "example",
     impact_score |-> 70, leverage_score |-> 65, momentum_score |-> 75,
     connectivity_score |-> 55, gap_criticality_score |-> 70]

C12_FailureExcludesCreatedContent ==
    pc = "returned" =>
        /\ result.extraction_failed =>
              /\ result.created_nodes = <<>>
              /\ result.created_edges = <<>>
              /\ result.created_nuggets = <<>>
        /\ (result.failure_reason # "") <=> result.extraction_failed

C12_Witness ==
    /\ pc = "returned"
    /\ result.extraction_failed
    /\ result.failure_reason = QUALITY_FAILURE
    /\ Len(result.extracted_nuggets) = 2
    /\ db.nodes # <<>>

\* the node has its nugget and a provenance record in d
HasNuggetAndProvenance(d, id) ==
    /\ \E k \in DOMAIN d.nuggets : d.nuggets[k].node_id = id
    /\ \E k \in DOMAIN d.provenance : d.provenance[k].node_id = id

C14_TurnNumbersStrictlyIncrease ==
    \A i, j \in DOMAIN tx.turns :
        i < j => tx.turns[i].turn_number < tx.turns[j].turn_number

\* the bucket of the similarity inter / union, highest threshold first
ExpectedOutcome(inter, union) ==
    IF 100 * inter >= 85 * union THEN "merge"
    ELSE IF 100 * inter >= 50 * union THEN "link_expands"
    ELSE IF 100 * inter >= 30 * union THEN "link_related"
    ELSE "create"

\* C15: against a non-empty list of existing nodes, each candidate's dedup
\* outcome is the bucket of its best Jaccard title similarity s over those
\* nodes: merge for s >= 0.85, link_expands for 0.50 <= s < 0.85, link_related
\* for 0.30 <= s < 0.50, create below 0.30.
C15_DedupThresholds ==
    (pc \in {"persist"} \cup AfterPersist /\ existing_nodes # <<>>) =>
        \A i \in DOMAIN result.dedup_decisions :
            LET words == result.extracted_nuggets[i].title
                inter(k) == Cardinality(words \cap existing_nodes[k].title)
                union(k) == Cardinality(words \cup existing_nodes[k].title)
            IN \E k \in DOMAIN existing_nodes :
                  /\ \A m \in DOMAIN existing_nodes :
                        inter(m) * union(k) <= inter(k) * union(m)
                  /\ result.dedup_decisions[i].outcome = ExpectedOutcome(inter(k), union(k))

\* a candidate at similarity exactly 0.85 to its best match, merged
C15_Witness ==
    /\ pc = "persist"
    /\ Len(existing_nodes) = 2
    /\ result.dedup_decisions[1].similarity_score = <<17, 20>>
    /\ result.dedup_decisions[1].outcome = "merge"

\* the candidates (1-based positions) the persist loop makes a new nugget for,
\* in the loop's order
CreatedIndex ==
    SelectSeq([i \in DOMAIN result.dedup_decisions |-> i],
              LAMBDA i : result.dedup_decisions[i].outcome # "merge")

\* C16: every candidate that is not merged is persisted as a new nugget
\* whatever its novelty, and the nugget of a scored candidate carries
\* total_score \div 2 when the candidate's novelty is below 20 and total_score
\* when it is 20 or more.
C16_AntiGenericHalvesScore ==
    pc \in AfterPersist =>
        /\ Len(result.created_nuggets) = Len(CreatedIndex)
        /\ \A k \in DOMAIN CreatedIndex, j \in DOMAIN result.scored_nuggets :
              result.scored_nuggets[j].nugget_index = CreatedIndex[k] - 1 =>
                 LET d == result.scored_nuggets[j].dimension_scores
                 IN result.created_nuggets[k].score =
                       IF d.novelty < 20 THEN total_score(d) \div 2 ELSE total_score(d)

\* one run persisted a candidate of novelty 19 and one of novelty 20
C16_Witness ==
    /\ pc \in AfterPersist
    /\ Len(result.created_nuggets) = 2
    /\ result.scored_nuggets[1].dimension_scores.novelty = 19
    /\ result.created_nuggets[1].score = 27
    /\ result.scored_nuggets[2].dimension_scores.novelty = 20
    /\ result.created_nuggets[2].score = 55

\* the edge type a link outcome calls for
LinkEdgeType(outcome) == IF outcome = "link_expands" THEN "expands_on" ELSE "related_to"

\* C17: once the persist stage is through, the node made for a candidate with
\* outcome link_expands or link_related has an edge from itself to the
\* existing node the decision names, of type expands_on or related_to
\* respectively; that node existed before the run; and the response commits
\* the run's nodes and edges together.
C17_LinkedNodeHasEdge ==
    /\ [](pc \in AfterPersist =>
            \A k \in DOMAIN CreatedIndex :
               LET decision == result.dedup_decisions[CreatedIndex[k]]
               IN decision.outcome \in {"link_expands", "link_related"} =>
                     /\ IsExisting(decision.existing_node_id)
                     /\ decision.existing_node_id # None
                     /\ \E e \in DOMAIN db.edges :
                           db.edges[e] = Edge(session_id, result.created_nodes[k].id,
                                              decision.existing_node_id,
                                              LinkEdgeType(decision.outcome)))
    /\ [][(pc = "returned" /\ pc' = "idle") =>
             (committed'.nodes = db.nodes /\ committed'.edges = db.edges)]_vars

\* one run linked a candidate by expands_on and another by related_to
C17_Witness ==
    /\ pc = "returned"
    /\ Len(result.dedup_decisions) = 2
    /\ result.dedup_decisions[1].outcome = "link_expands"
    /\ result.dedup_decisions[2].outcome = "link_related"
    /\ Len(result.created_nodes) = 2

\* the candidates (1-based positions) with outcome merge
MergedIndex == {i \in DOMAIN result.dedup_decisions : result.dedup_decisions[i].outcome = "merge"}

\* C18: once the persist stage is through, the candidates with outcome merge
\* have added no node and no nugget (the new nodes and nuggets are those of
\* the other candidates), the nodes and nuggets that existed before the run
\* are unchanged, and each merged candidate has added exactly one provenance
\* row, which names the existing node and the current chat turn.
C18_MergeOnlyAddsProvenance ==
    pc \in AfterPersist =>
        /\ Len(db.nodes) = Len(committed.nodes) + Len(CreatedIndex)
        /\ Len(db.nuggets) = Len(committed.nuggets) + Len(CreatedIndex)
        /\ SubSeq(db.nodes, 1, Len(committed.nodes)) = committed.nodes
        /\ SubSeq(db.nuggets, 1, Len(committed.nuggets)) = committed.nuggets
        /\ Len(NewProvenance) = Len(result.dedup_decisions)
        /\ \A i \in MergedIndex :
              /\ IsExisting(result.dedup_decisions[i].existing_node_id)
              /\ NewProvenance[i].node_id = result.dedup_decisions[i].existing_node_id
              /\ NewProvenance[i].source_type = "chat"
              /\ NewProvenance[i].source_id = chat_turn_id

\* a run with a merged candidate and a created one
C18_Witness ==
    /\ pc \in AfterPersist
    /\ Len(result.dedup_decisions) = 2
    /\ result.dedup_decisions[1].outcome = "merge"
    /\ result.dedup_decisions[2].outcome = "create"
    /\ Len(result.created_nodes) = 1

\* in d, every nugget belongs to exactly one node, and every node has exactly
\* one nugget
NuggetPerNode(d) ==
    /\ \A i, j \in DOMAIN d.nodes : d.nodes[i].id = d.nodes[j].id => i = j
    /\ \A k \in DOMAIN d.nuggets :
          \E i \in DOMAIN d.nodes : d.nodes[i].id = d.nuggets[k].node_id
    /\ \A k, m \in DOMAIN d.nuggets : d.nuggets[k].node_id = d.nuggets[m].node_id => k = m
    /\ \A i \in DOMAIN d.nodes :
          \E k \in DOMAIN d.nuggets : d.nuggets[k].node_id = d.nodes[i].id

\* C19: after any sequence of runs, committed or still in the request's
\* database session, every nugget belongs to exactly one node, no node has
\* more than one nugget, and every node the pipeline made has exactly one.
C19_OneNuggetPerNode == NuggetPerNode(committed) /\ NuggetPerNode(db)

\* two runs have committed three nodes
C19_Witness ==
    /\ pc = "idle"
    /\ nruns = 2
    /\ Len(committed.nodes) = 3
    /\ Len(committed.nuggets) = 3

\* the session of the node with that id in d, None if there is no such node
SessionOfNode(d, id) ==
    IF \E i \in DOMAIN d.nodes : d.nodes[i].id = id
    THEN (CHOOSE n \in {d.nodes[i] : i \in DOMAIN d.nodes} : n.id = id).session_id
    ELSE None

\* every edge of d joins two nodes of the edge's own session
EdgesStayInSession(d) ==
    \A e \in DOMAIN d.edges :
        /\ SessionOfNode(d, d.edges[e].source_id) = d.edges[e].session_id
        /\ SessionOfNode(d, d.edges[e].target_id) = d.edges[e].session_id

\* C20: after any sequence of runs over several sessions, every edge the
\* pipeline made (link, co-extraction, contradicts) has a source node and a
\* target node of the edge's own session, in the committed state and in the
\* request's database session.
C20_EdgesStayInSession == EdgesStayInSession(committed) /\ EdgesStayInSession(db)

\* a run on session 2 has made a link edge, a co-extraction edge and a
\* contradicts edge while session 1 holds a node of a similar title
C20_Witness ==
    /\ pc = "returned"
    /\ session_id = 2
    /\ \E i \in DOMAIN committed.nodes : committed.nodes[i].session_id = 1
    /\ \E e \in DOMAIN db.edges :
          db.edges[e].session_id = 2 /\ db.edges[e].edge_type = "contradicts"
    /\ \E e \in DOMAIN db.edges :
          db.edges[e].session_id = 2 /\ db.edges[e].edge_type = "expands_on"
    /\ \E e \in DOMAIN CoPassEdges : CoPassEdges[e].session_id = 2

\* the stages of a run after extraction has returned candidates
AfterExtract == {"score", "dedup", "persist", "contradict", "questions"}

C21_LowsDropped ==
    pc = "score" =>
        IF \E i \in DOMAIN extract_output : extract_output[i].confidence # "low"
        THEN /\ \A i \in DOMAIN result.extracted_nuggets :
                  result.extracted_nuggets[i].confidence # "low"
             /\ result.extracted_nuggets =
                  SelectSeq(extract_output, LAMBDA n : n.confidence # "low")
        ELSE result.extracted_nuggets = extract_output

C21_LaterStagesSeeKept ==
    /\ pc \in {"dedup", "persist", "contradict", "questions"} =>
           Len(result.scored_nuggets) = Len(result.extracted_nuggets)
    /\ pc \in {"persist", "contradict", "questions"} =>
           Len(result.dedup_decisions) = Len(result.extracted_nuggets)

\* C21: when extraction returns candidates and at least one of them has a
\* confidence other than low, the low-confidence candidates are removed (the
\* others keep their order) before scoring, deduplication and persistence; when
\* every candidate is low-confidence all of them are kept; the later stages of
\* the run work on the kept list and never change it.
C21_LowConfidenceFiltered ==
    /\ [](C21_LowsDropped /\ C21_LaterStagesSeeKept)
    /\ [][(pc \in AfterExtract) => result'.extracted_nuggets = result.extracted_nuggets]_vars

\* a run whose extraction returned a low and a non-low candidate has persisted
\* a single node
C21_Witness ==
    /\ pc = "contradict"
    /\ Len(result.extracted_nuggets) = 1
    /\ Len(result.created_nodes) = 1
    /\ ncands = 2
    /\ nruns = 1

\* the contradicts edges of the database from node n to node e
ContradictsEdges(n, e) ==
    {k \in DOMAIN db.edges : /\ db.edges[k].edge_type = "contradicts"
                             /\ db.edges[k].source_id = n
                             /\ db.edges[k].target_id = e}

\* the rule in the words of the claim, on word sets: a negation signal in the
\* new title, and |content & existing| / |content | existing| >= 0.30
ShouldContradict(new_title, existing_title) ==
    LET content == new_title \ negation_signals
    IN /\ new_title \cap negation_signals # {}
       /\ content \cup existing_title # {}
       /\ 100 * Cardinality(content \cap existing_title)
             >= 30 * Cardinality(content \cup existing_title)

\* C22: once the contradiction detector has run, there is a contradicts edge
\* from a node n created in this run to a node e of the existing nodes exactly
\* when n's title holds a negation signal and the Jaccard similarity of n's
\* words without the negation signals and e's words is at least 0.30; there is
\* one such edge per pair, a node may have several, and the returned count is
\* the number of contradicts edges created.
C22_ContradictsExactlyWhenNegated ==
    pc \in {"questions", "returned"} /\ ~result.extraction_failed =>
        /\ \A i \in DOMAIN result.created_nodes : \A j \in DOMAIN existing_nodes :
              LET n == result.created_nodes[i]
                  e == existing_nodes[j]
              IN Cardinality(ContradictsEdges(n.id, e.node_id)) =
                     IF ShouldContradict(n.title, e.title) THEN 1 ELSE 0
        /\ result.metrics.contradiction_count =
              Cardinality({k \in DOMAIN db.edges :
                  /\ db.edges[k].edge_type = "contradicts"
                  /\ \E i \in DOMAIN result.created_nodes :
                        db.edges[k].source_id = result.created_nodes[i].id})

\* a run has created one node with contradicts edges to two existing nodes, one
\* of them at similarity 3/10
C22_Witness ==
    /\ pc = "questions"
    /\ result.metrics.contradiction_count = 2
    /\ Len(result.created_nodes) = 1
    /\ \E j \in DOMAIN existing_nodes :
          /\ existing_nodes[j].title = FirstWords(10)
          /\ ContradictsEdges(result.created_nodes[1].id, existing_nodes[j].node_id) # {}

C24_OneMetricsRecordPerReturn ==
    /\ pc = "returned" =>
          /\ Len(emitted) = 1
          /\ emitted[1].extraction_failed = result.extraction_failed
    /\ pc \in {"extract"} \cup AfterExtract => emitted = <<>>

\* a run has returned a full success with its one record emitted
C24_Witness ==
    /\ pc = "returned"
    /\ ~result.extraction_failed
    /\ result.created_nodes # <<>>
    /\ Len(emitted) = 1
    /\ emitted[1].created_count = Len(result.created_nodes)

\* the two failure paths have returned with their record emitted
C24_WitnessExtractionFailure ==
    /\ pc = "returned" /\ result.failure_reason = EXTRACTION_FAILURE /\ Len(emitted) = 1

C24_WitnessQualityFailure ==
    /\ pc = "returned" /\ result.failure_reason = QUALITY_FAILURE /\ Len(emitted) = 1

\* the rows the claim counts: nodes of a session, and its expands_on and
\* contradicts edges
SessionNodes(sid) == {i \in DOMAIN db.nodes : db.nodes[i].session_id = sid}
QualifyingEdges(sid) ==
    {k \in DOMAIN db.edges : /\ db.edges[k].session_id = sid
                             /\ \/ db.edges[k].edge_type = "expands_on"
                                \/ db.edges[k].edge_type = "contradicts"}

\* C25: the value _get_session_dedup_rate returned for a session is the number
\* of its expands_on and contradicts edges divided by the number of its nodes;
\* for a session without nodes it is 0.0 and nothing was divided; 10 nodes and
\* 3 such edges give 0.3 (300 thousandths in the logged record).
C25_SessionDedupRate ==
    session_rate # NoRate =>
        LET sid == session_rate.session_id
            rate == session_rate.session_dedup_rate
            node_count == Cardinality(SessionNodes(sid))
            edge_count == Cardinality(QualifyingEdges(sid))
        IN /\ rate[2] # 0
           /\ node_count = 0 => rate = <<0, 1>>
           /\ node_count > 0 => rate[1] * node_count = edge_count * rate[2]
           /\ node_count = 10 /\ edge_count = 3 =>
                 /\ 10 * rate[1] = 3 * rate[2]
                 /\ RoundThousandths(rate) = 300

\* the rate of a session of 10 nodes with 2 expands_on, 1 contradicts and some
\* related_to edges has been taken while another session has edges of its own
C25_Witness ==
    /\ session_rate # NoRate
    /\ session_rate.session_id = 1
    /\ Cardinality(SessionNodes(1)) = 10
    /\ Cardinality(QualifyingEdges(1)) = 3
    /\ \E k \in DOMAIN db.edges : db.edges[k].edge_type = "related_to"
    /\ QualifyingEdges(2) # {}

\* the rate of a session without nodes has been taken
C25_WitnessNoNodes ==
    /\ session_rate # NoRate
    /\ SessionNodes(session_rate.session_id) = {}
    /\ db.edges # <<>>

\* the stages of a run after _deduplicate has returned
AfterDedup == {"persist", "contradict", "questions"}

\* C26: what _deduplicate returned holds one decision per candidate, the i-th
\* for the i-th candidate with nugget_index i - 1; each similarity score lies
\* in [0, 1] and is the similarity of that candidate to an existing node (or
\* zero); a decision carries an existing node id and a rationale exactly when
\* its outcome is not create.
C26_OneDecisionPerCandidate ==
    pc \in AfterDedup =>
        /\ Len(result.dedup_decisions) = Len(result.extracted_nuggets)
        /\ \A i \in DOMAIN result.dedup_decisions :
              LET decision == result.dedup_decisions[i]
                  score == decision.similarity_score
              IN /\ decision.nugget_index = i - 1
                 /\ score[2] > 0 /\ 0 <= score[1] /\ score[1] <= score[2]
                 /\ \/ score[1] = 0
                    \/ \E j \in DOMAIN existing_nodes :
                          score = Jaccard(result.extracted_nuggets[i].title,
                                          existing_nodes[j].title)
                 /\ decision.existing_node_id # None <=> decision.outcome # "create"
                 /\ decision.merge_rationale # NoRationale <=> decision.outcome # "create"

\* _deduplicate has returned a create decision with a similarity above zero and
\* a link_related decision for two candidates of one run
C26_Witness ==
    /\ pc = "persist"
    /\ Len(result.dedup_decisions) = 2
    /\ result.dedup_decisions[1].outcome = "create"
    /\ result.dedup_decisions[1].similarity_score[1] > 0
    /\ result.dedup_decisions[2].outcome = "link_related"
    /\ result.dedup_decisions[2].merge_rationale # NoRationale

\* whether a nugget is joined to node id, and the score of that nugget
HasScore(id) == \E k \in DOMAIN db.nuggets : db.nuggets[k].node_id = id

ScoreOfNode(id) ==
    db.nuggets[CHOOSE k \in DOMAIN db.nuggets : db.nuggets[k].node_id = id].score

Downvoted(id) ==
    \E k \in DOMAIN db.nuggets :
        db.nuggets[k].node_id = id /\ db.nuggets[k].user_feedback = "down"

InSession(id, sid) ==
    \E i \in DOMAIN db.nodes : db.nodes[i].id = id /\ db.nodes[i].session_id = sid

\* C27 (result): what get_graph_subset returned for a session holds at most
\* max_nodes nodes, all of the session and distinct, none with a downvoted
\* nugget, in descending order of nugget score with the nodes without a score
\* last, and exactly the session's edges with both ends among those nodes.
C27_SubsetShape ==
    graph # NoGraph =>
        LET sid == graph.session_id
            nodes == graph.nodes
            node_ids == {nodes[i] : i \in DOMAIN nodes}
        IN /\ Len(nodes) <= graph.max_nodes
           /\ \A i, j \in DOMAIN nodes : i # j => nodes[i] # nodes[j]
           /\ \A i \in DOMAIN nodes : InSession(nodes[i], sid) /\ ~Downvoted(nodes[i])
           /\ \A i, j \in DOMAIN nodes :
                 i < j => \/ ~HasScore(nodes[j])
                          \/ /\ HasScore(nodes[i])
                             /\ HasScore(nodes[j])
                             /\ ScoreOfNode(nodes[i]) >= ScoreOfNode(nodes[j])
           /\ graph.edges =
                 {k \in DOMAIN db.edges : /\ db.edges[k].session_id = sid
                                          /\ db.edges[k].source_id \in node_ids
                                          /\ db.edges[k].target_id \in node_ids}

C28_TotalScoreIsTruncatedWeightedSum ==
    \A k \in DOMAIN db.nuggets :
        LET nugget == db.nuggets[k]
        IN nugget.dimension_scores # <<>>
           /\ nugget.dimension_scores[1].novelty >= ANTI_GENERIC_NOVELTY_THRESHOLD =>
              LET d == nugget.dimension_scores[1]
              IN /\ nugget.score =
                      (20 * d.specificity + 15 * d.novelty + 20 * d.authority
                       + 15 * d.actionability + 15 * d.story_energy
                       + 15 * d.audience_resonance) \div 100
                 /\ nugget.score \in 0..100

\* C29: the total score of every question candidate of the result is
\* (25*impact + 20*leverage + 20*momentum + 15*connectivity
\* + 20*gap_criticality) / 100 truncated to an integer (80/70/85/60/75 gives 75).
C29_QuestionTotalIsTruncatedWeightedSum ==
    \A i \in DOMAIN result.questions :
        LET q == result.questions[i]
        IN question_total_score(q) =
              (25 * q.impact_score + 20 * q.leverage_score + 20 * q.momentum_score
               + 15 * q.connectivity_score + 20 * q.gap_criticality_score) \div 100

\* the characters c and d are the same letter in some casing, or the same character
SameLetter(c, d) == c = d \/ UpperChar(c) = d \/ c = UpperChar(d)

\* text holds phrase at some position, letter by letter in any casing
HoldsPhrase(text, phrase) ==
    \E i \in 1..(Len(text) - Len(phrase) + 1) :
        \A j \in DOMAIN phrase : SameLetter(text[i + j - 1], phrase[j])

HoldsBannedPhrase(text) ==
    \E k \in DOMAIN generic_phrases : HoldsPhrase(text, generic_phrases[k])

\* C30: a validated candidate whose title holds one of the five banned phrases
\* in any letter casing was rejected with an error, and one whose title holds
\* none of them was not rejected as too generic.
C30_GenericTitleRejected ==
    validated # NoCandidate =>
        /\ HoldsBannedPhrase(validated.title) => validated.error # ""
        /\ ~HoldsBannedPhrase(validated.title) => validated.error # "Title too generic"

\* the title "My KEY INSIGHT about leadership" has been rejected as too generic
C30_Witness ==
    /\ validated.error = "Title too generic"
    /\ Len(validated.title) = 31
    /\ SubSeq(validated.title, 4, 14) = Upper(generic_phrases[2])

\* the title "lessons learned about leadership" has been accepted
C30_WitnessAccepted ==
    /\ validated.error = ""
    /\ Len(validated.title) = 32
    /\ HoldsPhrase(validated.title, <<"l", "e", "s", "s", "o", "n", "s">>)

\* ---- C31
\* what each strategy is given to parse, by positions in the response (from
\* 0): the response itself; the text between the first json fence and the first
\* fence after it; the text of the first fenced block, after the line of a
\* language identifier; the text from the first { to the last }.  <<>> stands
\* for a strategy that has nothing to parse.
FenceAt(r, i) ==
    i + 3 <= Len(r) /\ r[i + 1] = Backtick /\ r[i + 2] = Backtick /\ r[i + 3] = Backtick

JsonFenceAt(r, i) ==
    /\ FenceAt(r, i)
    /\ i + 7 <= Len(r)
    /\ r[i + 4] = "j" /\ r[i + 5] = "s" /\ r[i + 6] = "o" /\ r[i + 7] = "n"

IsFirst(i, S) == i \in S /\ \A j \in S : i <= j

TextBetween(r, from, S) ==
    IF \E b \in S : IsFirst(b, S) /\ b > from
    THEN LET b == CHOOSE b \in S : IsFirst(b, S) IN [k \in 1..(b - from) |-> r[from + k]]
    ELSE <<>>

FencedJsonText(r) ==
    LET opens == {a \in 0..Len(r) : JsonFenceAt(r, a)}
    IN IF opens = {} THEN <<>>
       ELSE LET a == CHOOSE a \in opens : IsFirst(a, opens)
            IN TextBetween(r, a + 7, {b \in (a + 7)..Len(r) : FenceAt(r, b)})

FencedText(r) ==
    LET opens == {a \in 0..Len(r) : FenceAt(r, a)}
    IN IF opens = {} THEN <<>>
       ELSE LET a == CHOOSE a \in opens : IsFirst(a, opens)
                breaks == {n \in (a + 3)..(Len(r) - 1) : r[n + 1] = "\n"}
                from == IF \E n \in breaks : IsFirst(n, breaks) /\ n > a + 3
                        THEN 1 + CHOOSE n \in breaks : IsFirst(n, breaks)
                        ELSE a + 3
            IN TextBetween(r, from, {b \in from..Len(r) : FenceAt(r, b)})

BracedText(r) ==
    LET opens == {a \in 1..Len(r) : r[a] = "{"}
        closes == {b \in 1..Len(r) : r[b] = "}"}
    IN IF opens = {} \/ closes = {} THEN <<>>
       ELSE LET a == CHOOSE a \in opens : IsFirst(a, opens)
                b == CHOOSE b \in closes : \A c \in closes : b >= c
            IN IF b < a THEN <<>> ELSE [k \in 1..(b - a + 1) |-> r[a + k - 1]]

StrategyTexts(r) == <<r, FencedJsonText(r), FencedText(r), BracedText(r)>>

Parseable(text) == json_loads(text).raised = ""

\* C31: _extract_json gives the value of the first of the four texts, in the
\* order direct, json block, fenced block, braces, that is parseable JSON, and
\* raises ValueError when none of the four is
C31_FirstParseableStrategyWins ==
    extracted.called =>
        LET texts == StrategyTexts(extracted.response)
            yielding == {i \in 1..4 : Parseable(texts[i])}
        IN IF yielding = {}
           THEN extracted.raised = "ValueError"
           ELSE /\ extracted.raised = ""
                /\ extracted.value =
                       json_loads(texts[CHOOSE i \in yielding : IsFirst(i, yielding)]).value

\* a response whose json block gives the number 1 and whose braces give an object
C31_Witness ==
    /\ extracted.called
    /\ extracted.response = JsonFence \o <<"1">> \o Fence
                                \o <<"{", "\"", "k", "\"", ":", " ", "1", "}">>
    /\ extracted.value = <<"1">>
    /\ json_loads(BracedText(extracted.response)).value
           = <<"{", "\"", "k", "\"", ":", "1", "}">>

\* a response of two objects with prose between: no strategy parses, ValueError
C31_WitnessValueError ==
    /\ extracted.called
    /\ extracted.raised = "ValueError"
    /\ BracedText(extracted.response) # <<>>
    /\ FencedText(extracted.response) # <<>>

\* ---- C32
\* the transitions the docstring of update_nugget_status lists
ValidTransitions ==
    {<<"new", "explored">>, <<"new", "parked">>, <<"explored", "parked">>,
     <<"parked", "new">>}

\* C32 (as stated; the code stores any status): a step changes the stored
\* status of a nugget only along one of the four valid transitions
C32_OnlyValidTransitions ==
    [][\A k \in DOMAIN committed.nuggets :
          committed'.nuggets[k].status # committed.nuggets[k].status
              => <<committed.nuggets[k].status, committed'.nuggets[k].status>>
                     \in ValidTransitions]_vars

\* ---- C33
\* C33: after any runs of the pipeline and any feedback requests, the score of
\* every nugget, committed or flushed, is in 0..100
C33_ScoreInRange ==
    /\ \A k \in DOMAIN committed.nuggets : committed.nuggets[k].score \in 0..MAX_SCORE
    /\ \A k \in DOMAIN db.nuggets : db.nuggets[k].score \in 0..MAX_SCORE

\* a nugget the pipeline scored 98 was upvoted and stands at 100, beside one it
\* scored 0
C33_Witness ==
    /\ Len(nugget_log) = 1
    /\ nugget_log[1].route = "feedback"
    /\ nugget_log[1].request = "up"
    /\ nugget_log[1].before.score = 98
    /\ committed.nuggets[nugget_log[1].nugget_id].score = MAX_SCORE
    /\ \E k \in DOMAIN committed.nuggets : committed.nuggets[k].score = 0

\* ---- C34
\* C34 (as stated; the cap at 100 loses part of the boost): when an upvote of
\* a nugget that was not upvoted is followed by a downvote of the same nugget,
\* the score after the downvote is the score before the upvote; and an upvote
\* of an upvoted nugget leaves the score as it is
C34_UpThenDownRestoresScore ==
    /\ \A i \in 1..(Len(nugget_log) - 1) :
          (/\ nugget_log[i].route = "feedback"
           /\ nugget_log[i + 1].route = "feedback"
           /\ nugget_log[i].nugget_id = nugget_log[i + 1].nugget_id
           /\ nugget_log[i].request = "up"
           /\ nugget_log[i].before.user_feedback # "up"
           /\ nugget_log[i + 1].request = "down")
              => nugget_log[i + 1].after.score = nugget_log[i].before.score
    /\ \A i \in DOMAIN nugget_log :
          (/\ nugget_log[i].route = "feedback"
           /\ nugget_log[i].request = "up"
           /\ nugget_log[i].before.user_feedback = "up")
              => nugget_log[i].after.score = nugget_log[i].before.score

\* ---- C35
\* the edges the running request has inserted: the rows of the edge table
\* that are not committed yet
EdgesOfRun == SubSeq(db.edges, Len(committed.edges) + 1, Len(db.edges))

\* C35 (as stated; contradicts edges are left out of the result): when run
\* has returned without failure, result.created_edges lists the edges the run
\* inserted, so the edge count of graph_update_summary is their number
C35_CreatedEdgesListEveryEdge ==
    (pc = "returned" /\ ~result.extraction_failed)
        => /\ graph_update_edge_count(result) = Len(EdgesOfRun)
           /\ \A i \in DOMAIN EdgesOfRun :
                 \E j \in DOMAIN result.created_edges : result.created_edges[j] = EdgesOfRun[i]

\* ---- C36
\* the nuggets of a session the claim calls eligible: score >= 60 and not
\* downvoted, with or without feedback
NotDownvotedHighScoring(sid) ==
    {k \in DOMAIN db.nuggets :
        /\ db.nodes[db.nuggets[k].node_id].session_id = sid
        /\ db.nuggets[k].score >= CONTEXT_MIN_SCORE
        /\ db.nuggets[k].user_feedback # "down"}

\* C36 (as stated; the code leaves out nuggets without feedback): the context
\* holds the five (or all, if fewer) highest-scoring nuggets of the session
\* among those of score >= 60 that are not downvoted
C36_ContextHoldsTopNotDownvoted ==
    session_context.called =>
        LET eligible == NotDownvotedHighScoring(session_context.session_id)
            chosen == {session_context.nuggets[i] : i \in DOMAIN session_context.nuggets}
        IN /\ Cardinality(chosen) = Len(session_context.nuggets)
           /\ Len(session_context.nuggets) = Min(CONTEXT_LIMIT, Cardinality(eligible))
           /\ chosen \subseteq eligible
           /\ \A c \in chosen, k \in eligible \ chosen :
                 db.nuggets[c].score >= db.nuggets[k].score

\* ---- C37
\* the position in result.created_nuggets of the nugget created from the
\* candidate at index (from 0): the candidates before it that were not merged
CreatedBefore(res, index) ==
    Cardinality({j \in 1..index : res.dedup_decisions[j].outcome # "merge"})

\* C37 (as stated; merged candidates shift the positions): when the response
\* carries the primary question, the candidate the question names created a
\* nugget and target_nugget_id is the id of that nugget
C37_TargetIsNuggetOfCandidate ==
    (pc = "returned" /\ ~result.extraction_failed /\ result.questions # <<>>)
        => LET primary == BestQuestion(result.questions)
               index == primary.target_nugget_index
               response == next_question(db, result)
           IN response.question = primary.question
                 => /\ index < Len(result.dedup_decisions)
                    /\ result.dedup_decisions[index + 1].outcome # "merge"
                    /\ response.target_nugget_id
                          = NuggetId(db, result.created_nuggets[CreatedBefore(result, index) + 1])

\* ---- C38
\* the rows the running request has inserted and not committed yet
NodesOfRun == SubSeq(db.nodes, Len(committed.nodes) + 1, Len(db.nodes))
NuggetsOfRun == SubSeq(db.nuggets, Len(committed.nuggets) + 1, Len(db.nuggets))
ProvenanceOfRun ==
    SubSeq(db.provenance, Len(committed.provenance) + 1, Len(db.provenance))

\* the candidates of the run that dedup did not merge
NotMerged(res) ==
    {i \in DOMAIN res.dedup_decisions : res.dedup_decisions[i].outcome # "merge"}

\* C38: when the persist stage of a run has completed, every candidate left
\* by the low-confidence filter was persisted exactly once, whatever its own
\* score: the i-th provenance row of the run belongs to the i-th candidate and
\* points to the existing node of a merge, or to a node the run created with
\* that candidate's title and exactly one nugget; nothing else was inserted
C38_EveryCandidatePersistedOnce ==
    (pc \in AfterPersist /\ ~result.extraction_failed)
        => /\ Len(ProvenanceOfRun) = Len(result.extracted_nuggets)
           /\ Len(NodesOfRun) = Cardinality(NotMerged(result))
           /\ Len(NuggetsOfRun) = Cardinality(NotMerged(result))
           /\ \A i \in DOMAIN result.extracted_nuggets :
                 LET decision == result.dedup_decisions[i]
                     prov == ProvenanceOfRun[i]
                 IN /\ prov.source_id = chat_turn_id
                    /\ IF decision.outcome = "merge"
                       THEN /\ prov.node_id = decision.existing_node_id
                            /\ prov.node_id \in DOMAIN committed.nodes
                       ELSE /\ prov.node_id
                                 = Len(committed.nodes) + CreatedBefore(result, i - 1) + 1
                            /\ db.nodes[prov.node_id].title
                                 = result.extracted_nuggets[i].title
                            /\ Cardinality({k \in DOMAIN db.nuggets :
                                    db.nuggets[k].node_id = prov.node_id}) = 1

\* a run has persisted a candidate of total below 30 as a new node, next to
\* one that reaches 30
C38_Witness ==
    /\ pc = "returned" /\ ~result.extraction_failed
    /\ Len(result.extracted_nuggets) = 2
    /\ \E i, j \in DOMAIN result.extracted_nuggets :
          /\ FindScore(result.scored_nuggets, i - 1) # NoScore
          /\ FindScore(result.scored_nuggets, j - 1) # NoScore
          /\ total_score(FindScore(result.scored_nuggets, i - 1).dimension_scores)
                < MIN_SCORE_THRESHOLD
          /\ total_score(FindScore(result.scored_nuggets, j - 1).dimension_scores)
                >= MIN_SCORE_THRESHOLD
          /\ result.dedup_decisions[i].outcome # "merge"
          /\ \E k \in DOMAIN NuggetsOfRun :
                /\ NuggetsOfRun[k].title = result.extracted_nuggets[i].title
                /\ NuggetsOfRun[k].score < MIN_SCORE_THRESHOLD
    /\ Len(ProvenanceOfRun) = 2

\* the same with the candidate of total below 30 merged into an existing node
C38_WitnessMerge ==
    /\ pc = "returned" /\ ~result.extraction_failed
    /\ \E i, j \in DOMAIN result.extracted_nuggets :
          /\ FindScore(result.scored_nuggets, i - 1) # NoScore
          /\ FindScore(result.scored_nuggets, j - 1) # NoScore
          /\ total_score(FindScore(result.scored_nuggets, i - 1).dimension_scores)
                < MIN_SCORE_THRESHOLD
          /\ total_score(FindScore(result.scored_nuggets, j - 1).dimension_scores)
                >= MIN_SCORE_THRESHOLD
          /\ result.dedup_decisions[i].outcome = "merge"
          /\ ProvenanceOfRun[i].node_id = result.dedup_decisions[i].existing_node_id

\* ---- C39
\* the positions in the scoring output of the entries for the candidate at
\* index (from 0)
EntriesFor(res, index) ==
    {k \in DOMAIN res.scored_nuggets : res.scored_nuggets[k].nugget_index = index}

\* C39: when the persist stage of a run has completed, the run has stored one
\* nugget per candidate that was not merged and no other; the nugget of the
\* candidate at position i carries the dimension scores and missing fields of
\* the first score entry with nugget_index = i and that entry's total, halved
\* when its novelty is below 20, or score 50 without dimension scores and
\* missing fields when no entry has that index
C39_ScoreComesFromEntryOfIndex ==
    (pc \in AfterPersist /\ ~result.extraction_failed)
        => /\ Len(NuggetsOfRun) = Cardinality(NotMerged(result))
           /\ \A i \in NotMerged(result) :
                 LET nugget == NuggetsOfRun[CreatedBefore(result, i - 1) + 1]
                     hits == EntriesFor(result, i - 1)
                 IN /\ nugget.title = result.extracted_nuggets[i].title
                    /\ IF hits = {}
                       THEN /\ nugget.score = 50
                            /\ nugget.dimension_scores = <<>>
                            /\ nugget.missing_fields = <<>>
                       ELSE LET entry == result.scored_nuggets[
                                             CHOOSE k \in hits : \A h \in hits : k <= h]
                                total == total_score(entry.dimension_scores)
                            IN /\ nugget.dimension_scores = <<entry.dimension_scores>>
                               /\ nugget.missing_fields = entry.missing_fields
                               /\ nugget.score =
                                     IF entry.dimension_scores.novelty
                                           < ANTI_GENERIC_NOVELTY_THRESHOLD
                                     THEN total \div 2 ELSE total

\* a run has stored two nuggets: one with the halved total of its entry, one
\* with score 50 because no entry has its index, while the scoring output
\* holds an entry whose index names no candidate
C39_Witness ==
    /\ pc = "returned" /\ ~result.extraction_failed
    /\ Len(NuggetsOfRun) = 2
    /\ \E k \in DOMAIN result.scored_nuggets :
          result.scored_nuggets[k].nugget_index >= Len(result.extracted_nuggets)
    /\ \E i, j \in NotMerged(result) :
          /\ EntriesFor(result, i - 1) = {}
          /\ NuggetsOfRun[CreatedBefore(result, i - 1) + 1].score = 50
          /\ EntriesFor(result, j - 1) # {}
          /\ NuggetsOfRun[CreatedBefore(result, j - 1) + 1].score
                < total_score(NuggetsOfRun[CreatedBefore(result, j - 1) + 1]
                                 .dimension_scores[1])

\* a run has stored a nugget whose index two entries of the scoring output
\* carry, with different dimension scores
C39_WitnessRepeated ==
    /\ pc = "returned" /\ ~result.extraction_failed
    /\ \E i \in NotMerged(result) :
          \E k, h \in EntriesFor(result, i - 1) :
              result.scored_nuggets[k].dimension_scores
                  # result.scored_nuggets[h].dimension_scores

\* ---- C40
\* C40: when the persist stage of a run has completed, the metrics of the run
\* satisfy dedup_trigger_count = merged_count + linked_count,
\* created_count + merged_count = number of dedup decisions = extracted_count,
\* linked_count <= created_count, and dedup_rate is dedup_trigger_count over
\* the number of decisions, a value from 0 to 1
C40_MetricsAddUp ==
    (pc \in AfterPersist /\ ~result.extraction_failed)
        => LET m == result.metrics
               decisions == Len(result.dedup_decisions)
           IN /\ m.dedup_trigger_count = m.merged_count + m.linked_count
              /\ m.created_count + m.merged_count = decisions
              /\ decisions = m.extracted_count
              /\ m.linked_count <= m.created_count
              /\ decisions > 0
              /\ m.dedup_rate = <<m.dedup_trigger_count, decisions>>
              /\ 0 <= m.dedup_rate[1] /\ m.dedup_rate[1] <= m.dedup_rate[2]

\* a run has returned with a merged, a linked and so a created candidate
C40_Witness ==
    /\ pc = "returned" /\ ~result.extraction_failed
    /\ result.metrics.merged_count = 1
    /\ result.metrics.linked_count = 1
    /\ result.metrics.created_count = 1
    /\ result.metrics.dedup_rate = <<2, 2>>

\* a run has returned with two candidates created and no dedup trigger
C40_WitnessNoTrigger ==
    /\ pc = "returned" /\ ~result.extraction_failed
    /\ result.metrics.extracted_count = 2
    /\ result.metrics.created_count = 2
    /\ result.metrics.dedup_trigger_count = 0
    /\ result.metrics.dedup_rate = <<0, 2>>

====
